---- MODULE Spec2Model ----
(***************************************************************************)
(* Model of the Bybit stream listener (src/bybit_websocket_listener.py):   *)
(* the Router (save_message), the Topic Buffer (process_queue and          *)
(* write_buffer_to_file), the Compactor (compress_old_csv_files), the      *)
(* Retention Enforcer (enforce_folder_size_limit) and the start-up         *)
(* sequence of main, over one shared output tree.                          *)
(*                                                                         *)
(* One action is one stretch of code between two suspension points of its  *)
(* coroutine (an await that hands control to the event loop or to an       *)
(* executor thread).  File I/O is done in executor threads, so a write by  *)
(* one task may fall between any two steps of another.                     *)
(***************************************************************************)
EXTENDS Integers, Sequences, FiniteSets, TLC

\* ------------------------------------------------------------------ bounds

\* Records that arrive for one key in the Topic Buffer specification.
MaxArrivals == 4
\* Connections one Connection Supervisor opens.
MaxConnects == 2
\* Consecutive failed attempts of one Connection Supervisor.
MaxFails == 8
\* Frames one channel group receives in the inbound-loop specification.
MaxFrames == 3
\* Records that arrive for one key in the whole-system specification.
MaxStoreArrivals == 1
\* The UTC date advances from 0 up to MaxDate.
MaxDate == 1
\* Bytes of one serialized record with its newline.
LineBytes == 250
\* Bytes of a file left in the output tree by an earlier run.
LeftoverBytes == 500

\* ------------------------------------------------------- program constants

\* The thresholds of the program, scaled down (the source's defaults are 100
\* records, 100 records and 15 GiB); every comparison with them is the source's.
BUFFER_LIMIT == 2
LOG_INTERVAL == 3
CSV_FOLDER_SIZE_LIMIT == 1000

RECONNECT_INITIAL_BACKOFF == 1
RECONNECT_MAX_BACKOFF == 60

\* The channel groups main starts a Connection Supervisor for (two of them).
Channels == {"linear", "spot"}

\* The (channel_type, topic) keys that receive records in this run.
Keys == {<<"linear", "trade.BTCUSDT">>}

\* Every key a queue may be created for: a topic of each channel group, and
\* the sentinel topic.
AllKeys == {<<c, t>> : c \in Channels, t \in {"trade.BTCUSDT", "unknown"}}

Dates == 0..MaxDate

\* ------------------------------------------------------------------- state

VARIABLES
    today,              \* the UTC date get_current_utc_date() returns
    message_queues,     \* key -> queue of messages (the dict of save_message)
    pq_pc,              \* key -> position of the key's process_queue task
    buffer,             \* key -> pending serialized records
    last_utc_date,      \* key -> local last_utc_date of process_queue
    current_utc_date,   \* key -> local current_utc_date of process_queue
    log_counter,        \* the global throttling counter
    tree,               \* the output tree: file name -> lines, size, mtime
    arrived,            \* history: key -> messages put on the queue, in order
    recv_date,          \* history: key -> date at which each record was dequeued
    sent_date,          \* history: key -> date at which each record was put
    write_failed,       \* history: some write_buffer_to_file call has failed
    flushes,            \* history: key -> number of records of each write, in order
    main_pc,            \* position of main: "init", "startup", "running"
    current_folder_size,\* the global byte counter of the Retention Enforcer
    comp_pc,            \* position of the current compress_old_csv_files pass
    comp_todo,          \* files whose compress_file_async has not run yet
    comp_rm,            \* files compressed (or not) whose os.remove is next
    compress_failed,    \* history: files whose compression or removal failed in this pass
    enf_pc,             \* position of enforce_folder_size_limit
    file_paths,         \* its local list of (path, mtime), sorted
    enf_i,              \* index in file_paths of the file the loop is at
    file_size,          \* its local file_size
    pass_start,         \* history: the tree when the current pass listed it
    sup_pc,             \* channel -> position of its connect_and_listen task
    backoff,            \* channel -> local backoff of connect_and_listen
    cur,                \* channel -> number of connections opened so far
    hb,                 \* channel -> connections whose send_heartbeat task is alive
    fails,              \* history: channel -> failed attempts since the last connect
    inbound,            \* history: channel -> frames received after the subscribe request
    unknown_log         \* channel -> messages given to log_unknown_message

bufferVars == <<message_queues, pq_pc, buffer, last_utc_date, current_utc_date,
                log_counter, arrived, recv_date, sent_date, write_failed,
                flushes>>

compVars == <<comp_pc, comp_todo, comp_rm, compress_failed>>

enfVars == <<enf_pc, file_paths, enf_i, file_size, pass_start>>

maintVars == <<main_pc, current_folder_size, compVars, enfVars>>

supVars == <<sup_pc, backoff, cur, hb, fails, inbound, unknown_log>>

vars == <<today, tree, bufferVars, maintVars, supVars>>

\* ----------------------------------------------------------------- helpers

Range(s) == {s[i] : i \in 1..Len(s)}

IsPrefix(s, t) == Len(s) <= Len(t) /\ SubSeq(t, 1, Len(s)) = s

\* get_current_utc_date(): the date string; dates are numbered from the day
\* the process starts.
get_current_utc_date == today

\* json.dumps(message): the text of one record.
json_dumps(m) == <<"json", m.topic, m.id>>

\* The record a line of text came from.
RecordOf(line) == line[3]

\* os.path.join(topic_folder, f"{date}_{topic}.csv") for the key's folder.
CsvFile(k, d) == [key |-> k, date |-> d, gz |-> FALSE]

\* f"{csv_path}.gz"
GzPath(f) == [f EXCEPT !.gz = TRUE]

\* "\n".join(buffer) + "\n": one line per buffered record.
JoinLines(buf) == buf

\* The bytes of the text written for a buffer.
TextBytes(buf) == Len(buf) * LineBytes

RECURSIVE MaxMtime(_, _)
MaxMtime(tr, S) ==
    IF S = {} THEN 0
    ELSE LET f == CHOOSE g \in S : TRUE
             m == MaxMtime(tr, S \ {f})
         IN IF tr[f].mtime > m THEN tr[f].mtime ELSE m

\* The time of a write: later than the modification time of every file the
\* tree holds (only the order of modification times is read by the program).
Now(tr) == MaxMtime(tr, DOMAIN tr) + 1

\* A write that opens the file with mode "w": earlier text is lost.
AppendToFile_Truncating(tr, f, buf, t) ==
    [g \in DOMAIN tr \cup {f} |->
        IF g = f THEN [lines |-> JoinLines(buf),
                       size  |-> TextBytes(buf),
                       mtime |-> t]
        ELSE tr[g]]

\* open(csv_file, "a") then write: the file is created when absent, the text
\* goes to its end, the modification time is the time of the write.
AppendToFile(tr, f, buf, t) ==
    IF f \in DOMAIN tr
    THEN [tr EXCEPT ![f] = [lines |-> tr[f].lines \o JoinLines(buf),
                            size  |-> tr[f].size + TextBytes(buf),
                            mtime |-> t]]
    ELSE [g \in DOMAIN tr \cup {f} |->
            IF g = f THEN [lines |-> JoinLines(buf),
                           size  |-> TextBytes(buf),
                           mtime |-> t]
            ELSE tr[g]]

\* write_buffer_to_file(csv_file, buffer): the tree after the call.  A failure
\* to open or write is caught and logged inside; nothing reaches the file.
write_buffer_to_file(tr, f, buf, t, ok) ==
    IF ok THEN AppendToFile(tr, f, buf, t) ELSE tr

\* log_counter += len(buffer); reset once it reaches LOG_INTERVAL.
BumpLogCounter(c, buf) ==
    IF c + Len(buf) >= LOG_INTERVAL THEN 0 ELSE c + Len(buf)

\* A threshold test one record early: len(buffer) >= BUFFER_LIMIT - 1.
ThresholdReached_Early(buf) == Len(buf) >= BUFFER_LIMIT - 1

\* A threshold test that is off by one: len(buffer) > BUFFER_LIMIT.
ThresholdReached_Strict(buf) == Len(buf) > BUFFER_LIMIT

\* len(buffer) >= BUFFER_LIMIT
ThresholdReached(buf) == Len(buf) >= BUFFER_LIMIT

\* A buffer that keeps its records after a write.
buffer_clear_Keep(buf) == buf

\* Lines 147, 165 and 173: buffer.clear()
buffer_clear(buf) == <<>>

\* A timeout branch that never writes.
TimeoutFlushes_Never(buf) == FALSE

\* Line 167: `if buffer:` in the asyncio.TimeoutError branch.
TimeoutFlushes(buf) == buf # <<>>

\* ------------------------------------------------------------ environment

\* The UTC date advances by one day.
AdvanceDate ==
    /\ today < MaxDate
    /\ today' = today + 1
    /\ UNCHANGED <<supVars, maintVars, tree, bufferVars>>

\* ------------------------------------------------------- Router (save_message)

\* A membership test that never finds the key.
KeyPresent_Never(k) == FALSE

\* Line 112: `key not in message_queues`, negated.
KeyPresent(k) == k \in DOMAIN message_queues

\* A queue bounded to one message: full as soon as it holds one.
QueueFull_Bounded(q) == Len(q) >= 1

\* Line 113: Queue() has maxsize 0, so full() is never true and put never
\* waits.
QueueFull(q) == FALSE

\* save_message(channel_type, topic, message): the queue and the process_queue
\* task are created on the key's first record, then the record is put.  The
\* test, the two creations and the put run without suspension (the queue is
\* unbounded, so put never waits).
PutMessage(k, cap) ==
    /\ main_pc = "running"
    /\ Len(arrived[k]) < cap
    /\ LET m == [topic |-> k[2], id |-> Len(arrived[k]) + 1]
           q == IF KeyPresent(k) THEN message_queues[k] ELSE <<>>
       IN /\ ~QueueFull(q)
          /\ message_queues' =
                [j \in DOMAIN message_queues \cup {k} |->
                    IF j = k THEN Append(q, m) ELSE message_queues[j]]
          /\ pq_pc' = IF KeyPresent(k) THEN pq_pc
                      ELSE [pq_pc EXCEPT ![k] = "start"]
          /\ arrived' = [arrived EXCEPT ![k] = Append(@, m)]
          /\ sent_date' = [sent_date EXCEPT ![k] = Append(@, today)]
    /\ UNCHANGED <<maintVars, today, tree, buffer, last_utc_date, current_utc_date,
                   log_counter, recv_date, write_failed, flushes>>

\* A call of save_message seen from outside the Connection Supervisor.
save_message(k, cap) == PutMessage(k, cap) /\ UNCHANGED supVars

Arrive == \E k \in Keys : save_message(k, MaxArrivals)

\* ------------------------------------------------ Topic Buffer (process_queue)

\* Lines 135-154: the top of an iteration, which runs without suspension after
\* the step before it.  With a date change and a non-empty buffer `buf` the
\* next await is the rollover write; otherwise last_utc_date is brought up to
\* date and the next await is queue.get.
PQTop(k, buf) ==
    /\ current_utc_date' = [current_utc_date EXCEPT ![k] = get_current_utc_date]
    /\ IF get_current_utc_date # last_utc_date[k] /\ buf # <<>>
       THEN /\ pq_pc' = [pq_pc EXCEPT ![k] = "roll_write"]
            /\ UNCHANGED last_utc_date
       ELSE /\ pq_pc' = [pq_pc EXCEPT ![k] = "wait"]
            /\ last_utc_date' = [last_utc_date EXCEPT ![k] = get_current_utc_date]

\* Lines 119-157: the task's first run sets last_utc_date and an empty buffer,
\* enters the loop and waits on queue.get.
PQStart(k) ==
    /\ pq_pc[k] = "start"
    /\ last_utc_date' = [last_utc_date EXCEPT ![k] = get_current_utc_date]
    /\ current_utc_date' = [current_utc_date EXCEPT ![k] = get_current_utc_date]
    /\ buffer' = [buffer EXCEPT ![k] = <<>>]
    /\ pq_pc' = [pq_pc EXCEPT ![k] = "wait"]
    /\ UNCHANGED <<supVars, maintVars, today, tree, message_queues, log_counter, arrived,
                   recv_date, sent_date, write_failed, flushes>>

\* Lines 141-157: the rollover write to the previous date's file returns, the
\* buffer is cleared, last_utc_date is updated and the task waits on queue.get.
PQRollWrite(k, ok) ==
    /\ pq_pc[k] = "roll_write"
    /\ tree' = write_buffer_to_file(tree, CsvFile(k, last_utc_date[k]),
                                    buffer[k], Now(tree), ok)
    /\ write_failed' = (write_failed \/ ~ok)
    /\ flushes' = [flushes EXCEPT ![k] = Append(@, Len(buffer[k]))]
    /\ log_counter' = BumpLogCounter(log_counter, buffer[k])
    /\ buffer' = [buffer EXCEPT ![k] = buffer_clear(@)]
    /\ last_utc_date' = [last_utc_date EXCEPT ![k] = current_utc_date[k]]
    /\ pq_pc' = [pq_pc EXCEPT ![k] = "wait"]
    /\ UNCHANGED <<supVars, maintVars, today, message_queues, current_utc_date, arrived,
                   recv_date, sent_date>>

\* Lines 119-131: the task's first run raises before the loop is entered
\* (topic.split on a topic that is not a string, os.makedirs on a folder that
\* cannot be created).  These lines are outside the try of line 134: the
\* exception ends the task.  The queue stays in message_queues.
PQSetupFails(k) ==
    /\ pq_pc[k] = "start"
    /\ pq_pc' = [pq_pc EXCEPT ![k] = "failed"]
    /\ UNCHANGED <<supVars, maintVars, today, tree, message_queues, buffer,
                   last_utc_date, current_utc_date, log_counter, arrived,
                   recv_date, sent_date, write_failed, flushes>>

\* Lines 157-159: queue.get returns a message and its text is appended; at the
\* threshold the next await is the write, otherwise the next iteration begins.
PQGet(k) ==
    /\ pq_pc[k] = "wait"
    /\ message_queues[k] # <<>>
    /\ LET m == Head(message_queues[k])
           buf == Append(buffer[k], json_dumps(m))
       IN /\ message_queues' = [message_queues EXCEPT ![k] = Tail(@)]
          /\ buffer' = [buffer EXCEPT ![k] = buf]
          /\ recv_date' = [recv_date EXCEPT ![k] = Append(@, today)]
          /\ IF ThresholdReached(buf)
             THEN /\ pq_pc' = [pq_pc EXCEPT ![k] = "write"]
                  /\ UNCHANGED <<last_utc_date, current_utc_date>>
             ELSE PQTop(k, buf)
    /\ UNCHANGED <<supVars, maintVars, today, tree, log_counter, arrived, sent_date,
                   write_failed, flushes>>

\* Lines 166-167: queue.get times out after WRITE_INTERVAL with no message; a
\* non-empty buffer is written next, otherwise the next iteration begins.
PQTimeout(k) ==
    /\ pq_pc[k] = "wait"
    /\ message_queues[k] = <<>>
    /\ IF TimeoutFlushes(buffer[k])
       THEN /\ pq_pc' = [pq_pc EXCEPT ![k] = "write"]
            /\ UNCHANGED <<last_utc_date, current_utc_date>>
       ELSE PQTop(k, buffer[k])
    /\ UNCHANGED <<supVars, maintVars, today, tree, message_queues, buffer, log_counter,
                   arrived, recv_date, sent_date, write_failed, flushes>>

\* Lines 160-165 and 168-173: the write to csv_file (named for the date read
\* at the top of the iteration) returns, the buffer is cleared and the next
\* iteration begins.
PQWrite(k, ok) ==
    /\ pq_pc[k] = "write"
    /\ tree' = write_buffer_to_file(tree, CsvFile(k, current_utc_date[k]),
                                    buffer[k], Now(tree), ok)
    /\ write_failed' = (write_failed \/ ~ok)
    /\ flushes' = [flushes EXCEPT ![k] = Append(@, Len(buffer[k]))]
    /\ log_counter' = BumpLogCounter(log_counter, buffer[k])
    /\ buffer' = [buffer EXCEPT ![k] = buffer_clear(@)]
    /\ PQTop(k, <<>>)
    /\ UNCHANGED <<supVars, maintVars, today, message_queues, arrived, recv_date,
                   sent_date>>

\* A loop without the handler of line 175: the exception ends the task.
AfterQueueError_Exit == "done"

\* Lines 175-177: the exception is logged and the task sleeps for one second.
AfterQueueError == "error_sleep"

\* Lines 134-177: a statement of the loop body raises an exception other than
\* the timeout of queue.get.  Raised after queue.get has returned (`took`), the
\* message is gone from the queue and not in the buffer; raised after a write
\* has returned (write_buffer_to_file itself raises nothing), buffer.clear()
\* and the update of last_utc_date are skipped.  The handler of line 175
\* leaves the locals as they are.  (The same buffer is then written again:
\* the model lets a write be followed by an exception among the first
\* MaxStoreArrivals writes of a key.)
PQError(k, took) ==
    /\ pq_pc[k] \in {"wait", "write", "roll_write"}
    /\ pq_pc' = [pq_pc EXCEPT ![k] = AfterQueueError]
    /\ IF pq_pc[k] = "wait"
       THEN /\ IF took
               THEN /\ message_queues[k] # <<>>
                    /\ message_queues' = [message_queues EXCEPT ![k] = Tail(@)]
                    /\ recv_date' = [recv_date EXCEPT ![k] = Append(@, today)]
               ELSE UNCHANGED <<message_queues, recv_date>>
            /\ UNCHANGED <<tree, flushes>>
       ELSE /\ took
            /\ Len(flushes[k]) < MaxStoreArrivals
            /\ LET d == IF pq_pc[k] = "write" THEN current_utc_date[k]
                        ELSE last_utc_date[k]
               IN tree' = write_buffer_to_file(tree, CsvFile(k, d), buffer[k],
                                               Now(tree), TRUE)
            /\ flushes' = [flushes EXCEPT ![k] = Append(@, Len(buffer[k]))]
            /\ UNCHANGED <<message_queues, recv_date>>
    /\ UNCHANGED <<supVars, maintVars, today, buffer, last_utc_date,
                   current_utc_date, log_counter, arrived, sent_date, write_failed>>

\* Line 177: asyncio.sleep(1) returns and the next iteration begins.
PQErrWake(k) ==
    /\ pq_pc[k] = "error_sleep"
    /\ PQTop(k, buffer[k])
    /\ UNCHANGED <<supVars, maintVars, today, tree, message_queues, buffer,
                   log_counter, arrived, recv_date, sent_date, write_failed, flushes>>

\* Lines 441-445: on KeyboardInterrupt asyncio.run cancels every task.  The
\* CancelledError is raised in process_queue at the await it is suspended at;
\* `except Exception` does not catch it and there is no finally, so the task
\* ends there and its buffer is dropped.  A write that is in flight in its
\* executor thread completes (`wrote`) or not.
PQCancel(k, wrote) ==
    /\ main_pc \in {"running", "stopped"}
    /\ pq_pc[k] \in {"start", "wait", "write", "roll_write"}
    /\ main_pc' = "stopped"
    /\ pq_pc' = [pq_pc EXCEPT ![k] = "cancelled"]
    /\ buffer' = [buffer EXCEPT ![k] = <<>>]
    /\ IF pq_pc[k] \in {"write", "roll_write"}
       THEN LET d == IF pq_pc[k] = "write" THEN current_utc_date[k]
                     ELSE last_utc_date[k]
            IN /\ tree' = write_buffer_to_file(tree, CsvFile(k, d), buffer[k],
                                               Now(tree), wrote)
               /\ flushes' = IF wrote
                             THEN [flushes EXCEPT ![k] = Append(@, Len(buffer[k]))]
                             ELSE flushes
       ELSE /\ ~wrote
            /\ UNCHANGED <<tree, flushes>>
    /\ UNCHANGED <<supVars, today, message_queues, last_utc_date,
                   current_utc_date, log_counter, arrived, recv_date, sent_date,
                   write_failed, current_folder_size, compVars, enfVars>>

\* A step of a key's process_queue task; `outcomes` are the results a write
\* may have (TRUE: written; FALSE: the open or the write failed).
TopicBufferStep(outcomes) ==
    \E k \in Keys :
        \/ PQStart(k)
        \/ PQGet(k)
        \/ PQTimeout(k)
        \/ \E ok \in outcomes : PQRollWrite(k, ok)
        \/ \E ok \in outcomes : PQWrite(k, ok)

\* --------------------------------------------------------- the output tree

\* A topic of an earlier run that is not streamed in this one.
OldKey == <<"linear", "trade.ETHUSDT">>

\* The files an earlier run has left, seen at the start of the process: the
\* key's .csv of the day before and of today, and an archive of another topic.
LeftoverNames ==
    {CsvFile(k, d) : k \in Keys, d \in {-1, 0}} \cup {GzPath(CsvFile(OldKey, -1))}

\* Files an earlier run may have left that no compaction pass touches: today's
\* .csv of the key and archives of the day before.
AtRestNames ==
    {CsvFile(k, 0) : k \in Keys}
        \cup {GzPath(CsvFile(k, -1)) : k \in Keys \cup {OldKey}}

\* The text of a file of an earlier run: records of that run.
OldLines(f, size) ==
    [i \in 1..((IF f.gz THEN 2 * size ELSE size) \div LineBytes) |->
        <<"json", f.key[2], 0 - i>>]

\* The trees an earlier run may have left: the files of one of `sets`, with
\* pairwise distinct modification times before the process starts and sizes
\* of LeftoverBytes (with `vary`, also twice that; without, archives are
\* twice that).
LeftoverTrees(sets, vary) ==
    UNION {
        UNION {
            { [f \in S |-> [lines |-> OldLines(f, sz[f]),
                            size  |-> sz[f],
                            mtime |-> rank[f]]] :
                rank \in {r \in [S -> 1..Cardinality(S)] :
                             \A f, g \in S : f # g => r[f] # r[g]} } :
            sz \in {z \in [S -> {LeftoverBytes, 2 * LeftoverBytes}] :
                       vary \/ \A f \in S :
                           z[f] = IF f.gz THEN 2 * LeftoverBytes ELSE LeftoverBytes} } :
        S \in sets }

RECURSIVE SumSizes(_, _)
SumSizes(tr, S) ==
    IF S = {} THEN 0
    ELSE LET f == CHOOSE g \in S : TRUE
         IN tr[f].size + SumSizes(tr, S \ {f})

\* calculate_folder_size(CSV_FOLDER): the bytes of every file of the tree.
calculate_folder_size(tr) == SumSizes(tr, DOMAIN tr)

\* os.remove(path)
RemoveFile(tr, f) == [g \in DOMAIN tr \ {f} |-> tr[g]]

\* gzip of n bytes of text: the archive is about half the size.
gzip_size(n) == n \div 2

\* compress_file(csv_path, gz_path): gz_path is created or truncated, then
\* holds the compressed bytes of csv_path; on an error (caught and logged
\* inside) it is left truncated.
compress_file(tr, f, t, ok) ==
    LET gz == [lines |-> IF ok THEN tr[f].lines ELSE <<>>,
               size  |-> IF ok THEN gzip_size(tr[f].size) ELSE 0,
               mtime |-> t]
    IN [g \in DOMAIN tr \cup {GzPath(f)} |-> IF g = GzPath(f) THEN gz ELSE tr[g]]

\* filename.endswith(".csv")
IsCsv(f) == ~f.gz

\* os.path.basename(f).startswith(utc_date): the name begins with the date.
StartsWithDate(f, d) == f.date = d

\* get_all_csv_files and the filter of compress_old_csv_files.
old_csv_files(tr, utc_date) ==
    {f \in DOMAIN tr : IsCsv(f) /\ ~StartsWithDate(f, utc_date)}

\* get_all_files_with_mtime(CSV_FOLDER): every file with its mtime.
get_all_files_with_mtime(tr) ==
    {[path |-> f, mtime |-> tr[f].mtime] : f \in DOMAIN tr}

RECURSIVE SortByMtime_Descending(_)
\* A sort with the order reversed: newest first.
SortByMtime_Descending(S) ==
    IF S = {} THEN <<>>
    ELSE LET x == CHOOSE y \in S : \A z \in S : z.mtime <= y.mtime
         IN <<x>> \o SortByMtime_Descending(S \ {x})

RECURSIVE SortByMtime(_)
\* file_paths.sort(key=lambda x: x[1]): oldest first.
SortByMtime(S) ==
    IF S = {} THEN <<>>
    ELSE LET x == CHOOSE y \in S : \A z \in S : y.mtime <= z.mtime
         IN <<x>> \o SortByMtime(S \ {x})

\* current_folder_size > CSV_FOLDER_SIZE_LIMIT
OverBudget(c) == c > CSV_FOLDER_SIZE_LIMIT

\* A stop test that is off by one: current_folder_size < CSV_FOLDER_SIZE_LIMIT.
BudgetReached_Strict(c) == c < CSV_FOLDER_SIZE_LIMIT

\* current_folder_size <= CSV_FOLDER_SIZE_LIMIT
BudgetReached(c) == c <= CSV_FOLDER_SIZE_LIMIT

\* ----------------------------------------------------------------- main

\* main: initialize_folder_size() sets the counter from a walk of the tree;
\* the start-up compaction pass is next.
\* Lines 435-437: tg.create_task(connect_and_listen(c)) for each channel
\* group; a new task starts at its first connect attempt.
create_supervisors(sp) == [c \in DOMAIN sp |-> "connect"]

\* A main that creates the connect_and_listen tasks before it awaits the
\* start-up pass.
BeforeStartupPass_Created(sp) == create_supervisors(sp)

\* Line 429: `await compress_old_csv_files_on_startup()`: main creates no
\* task before the start-up pass has returned.
BeforeStartupPass(sp) == sp

MainInitSize ==
    /\ main_pc = "init"
    /\ current_folder_size' = calculate_folder_size(tree)
    /\ main_pc' = "startup"
    /\ comp_pc' = "list"
    /\ sup_pc' = BeforeStartupPass(sup_pc)
    /\ UNCHANGED <<backoff, cur, hb, fails, inbound, unknown_log, today, tree,
                   bufferVars, comp_todo, comp_rm, compress_failed, enfVars>>

\* ------------------------------------------ Compactor (compress_old_csv_files)

\* The gather of a pass has returned.  After the start-up pass main opens the
\* TaskGroup (lines 432-437): the periodic Compactor is about to run a pass,
\* the Retention Enforcer a check and each Connection Supervisor its first
\* connect attempt.  After a periodic pass the Compactor sleeps for
\* COMPRESSION_SLEEP_INTERVAL and then runs the next pass.
CompEndPass ==
    /\ comp_pc' = "list"
    /\ IF main_pc = "startup"
       THEN /\ main_pc' = "running"
            /\ enf_pc' = "check"
            /\ sup_pc' = create_supervisors(sup_pc)
       ELSE UNCHANGED <<main_pc, enf_pc, sup_pc>>

\* Lines 198-206: the pass lists the .csv files not named for today and starts
\* one compress_and_remove_file per file; with none it is over at once.
CompListCore ==
    /\ comp_pc = "list"
    /\ LET old == old_csv_files(tree, get_current_utc_date)
       IN IF old = {}
          THEN /\ CompEndPass
               /\ UNCHANGED comp_todo
          ELSE /\ comp_todo' = old
               /\ comp_pc' = "work"
               /\ UNCHANGED <<main_pc, enf_pc, sup_pc>>
    /\ UNCHANGED <<backoff, cur, hb, fails, inbound, unknown_log, today, tree,
                   bufferVars, current_folder_size, comp_rm, compress_failed,
                   file_paths, enf_i, file_size>>

CompList == CompListCore /\ UNCHANGED pass_start

\* A gather that drops the coroutines not yet run when one of them fails.
gather_rest_Abort(todo, f, ok) == IF ok THEN todo \ {f} ELSE {}

\* Line 204: asyncio.gather runs one compress_and_remove_file per file; each
\* catches its own exceptions, so the others run whatever the outcome of f.
gather_rest(todo, f, ok) == todo \ {f}

\* Lines 229 and 236-251: compress_file_async for one file.  Every error is
\* caught and logged inside, so the caller goes on to os.remove.  A missing
\* .csv fails the first open and nothing is written.
CompCompress(f, ok) ==
    /\ comp_pc = "work"
    /\ f \in comp_todo
    /\ comp_todo' = gather_rest(comp_todo, f, ok)
    /\ comp_rm' = comp_rm \cup {f}
    /\ IF f \in DOMAIN tree
       THEN /\ tree' = compress_file(tree, f, Now(tree), ok)
            /\ compress_failed' = IF ok THEN compress_failed
                                  ELSE compress_failed \cup {f}
       ELSE /\ ok
            /\ UNCHANGED <<tree, compress_failed>>
    /\ UNCHANGED <<supVars, today, bufferVars, main_pc, current_folder_size, comp_pc,
                   enfVars>>

\* Lines 230-233: os.remove(csv_path); a missing file raises, which is caught
\* and logged.
CompRemove(f) ==
    /\ comp_pc = "work"
    /\ f \in comp_rm
    /\ comp_rm' = comp_rm \ {f}
    /\ tree' = IF f \in DOMAIN tree THEN RemoveFile(tree, f) ELSE tree
    /\ UNCHANGED <<supVars, today, bufferVars, main_pc, current_folder_size,
                   comp_pc, comp_todo, compress_failed, enfVars>>

\* Lines 230-233: os.remove(csv_path) raises although the file is there (the
\* directory cannot be written to); the exception is caught and logged and
\* the file stays.  (A file that stays is compressed again by the next pass:
\* the model lets a removal fail in the start-up pass.)
CompRemoveFails(f) ==
    /\ comp_pc = "work"
    /\ main_pc = "startup"
    /\ f \in comp_rm
    /\ f \in DOMAIN tree
    /\ comp_rm' = comp_rm \ {f}
    /\ compress_failed' = compress_failed \cup {f}
    /\ UNCHANGED <<supVars, today, tree, bufferVars, main_pc, current_folder_size,
                   comp_pc, comp_todo, enfVars>>

\* Line 204: every compress_and_remove_file of the pass has returned.
CompDone ==
    /\ comp_pc = "work"
    /\ comp_todo = {} /\ comp_rm = {}
    /\ CompEndPass
    /\ compress_failed' = {}
    /\ UNCHANGED <<backoff, cur, hb, fails, inbound, unknown_log, today, tree,
                   bufferVars, current_folder_size, comp_todo, comp_rm,
                   file_paths, enf_i, file_size, pass_start>>

CompactorStep ==
    \/ CompList
    \/ \E f \in comp_todo : \E ok \in BOOLEAN : CompCompress(f, ok)
    \/ \E f \in comp_rm : CompRemove(f)
    \/ CompDone

\* ------------------------------- Retention Enforcer (enforce_folder_size_limit)

\* The pass ends: the task sleeps for FOLDER_SIZE_CHECK_INTERVAL and is then
\* at its next check.  The locals of the pass are dead from here on (each is
\* assigned again before its next use), so they are reset.
EnfEndPass ==
    /\ enf_pc' = "check"
    /\ file_paths' = <<>>
    /\ enf_i' = 0
    /\ file_size' = 0

\* The loop variable moves to the next listed file, or the loop is over.
EnfAdvance ==
    IF enf_i < Len(file_paths)
    THEN /\ enf_pc' = "getsize"
         /\ enf_i' = enf_i + 1
         /\ UNCHANGED <<file_paths, file_size>>
    ELSE EnfEndPass

\* An OSError that is not caught: the task ends.
EnfOnOSError_Fatal ==
    /\ enf_pc' = "dead"
    /\ UNCHANGED <<file_paths, enf_i, file_size>>

\* Lines 324-325: the OSError of getsize or remove on a file that is gone is
\* logged and the for loop goes on with the next listed file.
EnfOnOSError == EnfAdvance

\* Lines 299-311: the counter is compared with the budget; over it, the files
\* are listed with their mtimes and sorted.
EnfCheckCore ==
    /\ enf_pc = "check"
    /\ IF OverBudget(current_folder_size)
       THEN IF DOMAIN tree = {}
            THEN EnfEndPass
            ELSE /\ file_paths' = SortByMtime(get_all_files_with_mtime(tree))
                 /\ enf_i' = 1
                 /\ enf_pc' = "getsize"
                 /\ UNCHANGED file_size
       ELSE EnfEndPass
    /\ UNCHANGED <<supVars, today, tree, bufferVars, main_pc, current_folder_size,
                   compVars>>

EnfCheck == EnfCheckCore /\ UNCHANGED pass_start

\* Line 313: os.path.getsize(file_path); a missing file raises OSError, which
\* is logged, and the loop goes on.
EnfGetsize ==
    /\ enf_pc = "getsize"
    /\ LET f == file_paths[enf_i].path
       IN IF f \in DOMAIN tree
          THEN /\ file_size' = tree[f].size
               /\ enf_pc' = "remove"
               /\ UNCHANGED <<enf_i, file_paths>>
          ELSE EnfOnOSError
    /\ UNCHANGED <<supVars, today, tree, bufferVars, main_pc, current_folder_size,
                   compVars, pass_start>>

\* Lines 314-325: os.remove in the executor, then the counter is decremented
\* by file_size and the loop stops once the counter is within the budget.
EnfRemove ==
    /\ enf_pc = "remove"
    /\ LET f == file_paths[enf_i].path
       IN IF f \in DOMAIN tree
          THEN /\ tree' = RemoveFile(tree, f)
               /\ current_folder_size' = current_folder_size - file_size
               /\ IF BudgetReached(current_folder_size - file_size)
                  THEN EnfEndPass
                  ELSE EnfAdvance
          ELSE /\ EnfOnOSError
               /\ UNCHANGED <<tree, current_folder_size>>
    /\ UNCHANGED <<supVars, today, bufferVars, main_pc, compVars, pass_start>>

EnforcerStep ==
    \/ EnfCheck
    \/ EnfGetsize
    \/ EnfRemove

\* ------------------------------ Connection Supervisor (connect_and_listen)

Min(a, b) == IF a <= b THEN a ELSE b

\* A doubling without the cap.
NextBackoff_Uncapped(b) == b * 2

\* Lines 405 and 409: min(backoff * 2, RECONNECT_MAX_BACKOFF)
NextBackoff(b) == Min(b * 2, RECONNECT_MAX_BACKOFF)

\* An assignment to a backoff that all channel groups share.
SetBackoff_Global(c, v) == [d \in Channels |-> v]

\* An assignment to the local variable backoff of the task of channel c.
SetBackoff(c, v) == [backoff EXCEPT ![c] = v]

\* An exception handler that returns from connect_and_listen.
AfterHandler_Return == "done"

\* Line 356: after an exception handler the `while True` loop starts the next
\* connect attempt.
AfterHandler == "connect"

\* Lines 402-404 and 406-408: an exception has left the try block (and closed
\* the connection, if one was open); it is logged and the task sleeps for
\* backoff seconds.
SupFail(c) ==
    /\ fails[c] < MaxFails
    /\ sup_pc' = [sup_pc EXCEPT ![c] = "sleep"]
    /\ fails' = [fails EXCEPT ![c] = @ + 1]

\* Lines 358-365: websockets.connect returns.  With the transport open the
\* backoff is reset and the subscribe request is sent next; a failure to
\* connect raises.
SupConnect(c, ok) ==
    /\ sup_pc[c] = "connect"
    /\ IF ok
       THEN /\ cur[c] < MaxConnects
            /\ cur' = [cur EXCEPT ![c] = @ + 1]
            /\ backoff' = SetBackoff(c, RECONNECT_INITIAL_BACKOFF)
            /\ fails' = [fails EXCEPT ![c] = 0]
            /\ sup_pc' = [sup_pc EXCEPT ![c] = "subscribe"]
       ELSE /\ SupFail(c)
            /\ UNCHANGED <<cur, backoff>>
    /\ UNCHANGED <<today, tree, bufferVars, maintVars, hb, inbound, unknown_log>>

\* Lines 372-377: websocket.send(subscribe_message) returns, or raises because
\* the connection was lost.
SupSubscribe(c, ok) ==
    /\ sup_pc[c] = "subscribe"
    /\ IF ok
       THEN /\ sup_pc' = [sup_pc EXCEPT ![c] = "confirm"]
            /\ UNCHANGED fails
       ELSE SupFail(c)
    /\ UNCHANGED <<today, tree, bufferVars, maintVars, cur, backoff, hb, inbound,
                   unknown_log>>

\* Lines 376-386: the wait for the subscription response ends with a response
\* or with its timeout (both go on), or recv raises because the connection was
\* lost.  Going on, the heartbeat task of this connection is created and the
\* inbound loop is entered.
SupConfirm(c, ok) ==
    /\ sup_pc[c] = "confirm"
    /\ IF ok
       THEN /\ hb' = [hb EXCEPT ![c] = @ \cup {cur[c]}]
            /\ sup_pc' = [sup_pc EXCEPT ![c] = "streaming"]
            /\ UNCHANGED fails
       ELSE /\ SupFail(c)
            /\ UNCHANGED hb
    /\ UNCHANGED <<today, tree, bufferVars, maintVars, cur, backoff, inbound,
                   unknown_log>>

\* Lines 386-394: the inbound loop receives a message with a topic and hands it
\* to save_message.  (A message without a topic or one that is not JSON is
\* logged and changes nothing.)
SupRecv(c) ==
    /\ sup_pc[c] = "streaming"
    /\ \E k \in Keys : k[1] = c /\ save_message(k, MaxStoreArrivals)

\* Line 386: the inbound loop ends.  Closed with an error, the iterator raises
\* ConnectionClosedError and the handler of line 402 runs; closed normally by
\* the peer, the iterator just ends, the `async with` block is left and the
\* `while True` loop goes straight to the next connect attempt.
SupClosed(c, normal) ==
    /\ sup_pc[c] = "streaming"
    /\ IF normal
       THEN /\ sup_pc' = [sup_pc EXCEPT ![c] = "connect"]
            /\ UNCHANGED fails
       ELSE SupFail(c)
    /\ UNCHANGED <<today, tree, bufferVars, maintVars, cur, backoff, hb, inbound,
                   unknown_log>>

\* Lines 404-405 and 408-409: asyncio.sleep(backoff) returns, the backoff is
\* doubled up to the cap and the loop starts the next attempt.
SupWake(c) ==
    /\ sup_pc[c] = "sleep"
    /\ backoff' = SetBackoff(c, NextBackoff(backoff[c]))
    /\ sup_pc' = [sup_pc EXCEPT ![c] = AfterHandler]
    /\ UNCHANGED <<today, tree, bufferVars, maintVars, cur, hb, fails, inbound,
                   unknown_log>>

\* The connection numbered id of channel c is the one its task holds open.
ConnOpen(c, id) ==
    id = cur[c] /\ sup_pc[c] \in {"subscribe", "confirm", "streaming"}

\* Lines 411-420: send_heartbeat of connection id wakes after PING_INTERVAL and
\* sends a ping.  On a closed connection send raises a WebSocketException; on
\* an open one the ping is sent, or send raises something else; every
\* exception is logged and ends the task.  Nothing else ends it.
HBPing(c, id, sent) ==
    /\ id \in hb[c]
    /\ sent => ConnOpen(c, id)
    /\ hb' = IF sent THEN hb ELSE [hb EXCEPT ![c] = @ \ {id}]
    /\ UNCHANGED <<today, tree, bufferVars, maintVars, sup_pc, backoff, cur, fails,
                   inbound, unknown_log>>

SupervisorStep(c) ==
    \/ \E ok \in BOOLEAN : SupConnect(c, ok)
    \/ \E ok \in BOOLEAN : SupSubscribe(c, ok)
    \/ \E ok \in BOOLEAN : SupConfirm(c, ok)
    \/ SupRecv(c)
    \/ \E normal \in BOOLEAN : SupClosed(c, normal)
    \/ SupWake(c)

HeartbeatStep(c) == \E id \in hb[c] : \E sent \in BOOLEAN : HBPing(c, id, sent)

\* ------------------------------------------- the inbound loop (lines 386-400)

\* The text of a frame is a sequence of tokens.  A JSON object is "{", then
\* names and values in turn, then "}"; a JSON array is "[", values, "]".
ObjectText(t) ==
    /\ Len(t) >= 2
    /\ t[1] = "{" /\ t[Len(t)] = "}"
    /\ Len(t) % 2 = 0
    /\ \A i \in 2..(Len(t) - 1) : t[i] \notin {"{", "}", "[", "]"}

ArrayText(t) ==
    /\ Len(t) >= 2
    /\ t[1] = "[" /\ t[Len(t)] = "]"
    /\ \A i \in 2..(Len(t) - 1) : t[i] \notin {"{", "}", "[", "]"}

\* json.loads(message) returns: any other text raises json.JSONDecodeError.
IsJson(t) == ObjectText(t) \/ ArrayText(t)

\* isinstance(data, dict)
IsDict(t) == ObjectText(t)

\* json.loads(message) of the text of an object: the dict of its names, each
\* with the value that follows its last occurrence.
json_loads(t) ==
    LET n == (Len(t) - 2) \div 2
        Last(name) == CHOOSE i \in 1..n :
                          /\ t[2 * i] = name
                          /\ \A j \in (i + 1)..n : t[2 * j] # name
    IN [name \in {t[2 * i] : i \in 1..n} |-> t[2 * Last(name) + 1]]

\* data.get(name, default)
dict_get(data, name, default) ==
    IF name \in DOMAIN data THEN data[name] ELSE default

\* A test of the sentinel that never matches.
IsUnknown_Never(topic) == FALSE

\* Line 391: topic == "unknown"
IsUnknown(topic) == topic = "unknown"

\* A decode error that leaves the inbound loop for the handler of line 406.
AfterDecodeError_Raise == "sleep"

\* Lines 397-400: the exception is logged inside the `async for` body and the
\* loop takes the next frame of the same connection.
AfterDecodeError == "streaming"

\* The frames a peer sends on channel c: a record of each topic of the
\* channel, a record with the sentinel topic, an object without topic (the
\* reply to a ping), a truncated text and an array.
InboundFrames(c) ==
    {<<"{", "topic", k[2], "}">> : k \in {j \in Keys : j[1] = c}}
        \cup {<<"{", "topic", "unknown", "}">>,
              <<"{", "op", "pong", "}">>,
              <<"{", "topic">>,
              <<"[", "]">>}

\* Lines 386-400: one turn of `async for message in websocket` for the frame
\* fr.  A text that is not JSON raises JSONDecodeError at line 388 and a JSON
\* value without .get raises AttributeError at line 389; both are logged and
\* the frame is dropped.  A dict goes to log_unknown_message or to
\* save_message by its topic.
SupFrame(c, fr) ==
    /\ sup_pc[c] = "streaming"
    /\ Len(inbound[c]) < MaxFrames
    /\ inbound' = [inbound EXCEPT ![c] = Append(@, fr)]
    /\ IF ~(IsJson(fr) /\ IsDict(fr))
       THEN /\ sup_pc' = [sup_pc EXCEPT ![c] = AfterDecodeError]
            /\ UNCHANGED <<unknown_log, today, tree, bufferVars, maintVars>>
       ELSE LET data == json_loads(fr)
                topic == dict_get(data, "topic", "unknown")
            IN IF IsUnknown(topic)
               THEN /\ unknown_log' = [unknown_log EXCEPT ![c] = Append(@, data)]
                    /\ UNCHANGED <<sup_pc, today, tree, bufferVars, maintVars>>
               ELSE /\ PutMessage(<<c, topic>>, MaxFrames)
                    /\ UNCHANGED <<sup_pc, unknown_log>>
    /\ UNCHANGED <<backoff, cur, hb, fails>>

InboundStep(c) == \E fr \in InboundFrames(c) : SupFrame(c, fr)

\* The frames a peer may send first after a subscribe request: its reply to
\* the request, or any frame of the stream.
ConfirmFrames(c) == {<<"{", "success", "true", "}">>} \cup InboundFrames(c)

\* Lines 376-383: websocket.recv() under asyncio.wait_for returns the next frame
\* of the connection, whatever it holds; the frame is logged as the
\* subscription response and nothing else is done with it.  The heartbeat
\* task is created and the inbound loop is entered.
SupConfirmRecv(c, fr) ==
    /\ sup_pc[c] = "confirm"
    /\ Len(inbound[c]) < MaxFrames
    /\ inbound' = [inbound EXCEPT ![c] = Append(@, fr)]
    /\ hb' = [hb EXCEPT ![c] = @ \cup {cur[c]}]
    /\ sup_pc' = [sup_pc EXCEPT ![c] = "streaming"]
    /\ UNCHANGED <<today, tree, bufferVars, maintVars, cur, backoff, fails,
                   unknown_log>>

\* ------------------------------------------ the variant bybit-listener.py

\* Lines 73-78 of the variant: save_message, the same as in the listener.
VArrive == Arrive

\* Lines 81-106 of the variant: an entry of the outer loop reads the date,
\* names csv_file for it, starts an empty buffer, enters the inner loop and
\* waits on queue.get.
VStart(k) ==
    /\ pq_pc[k] = "start"
    /\ current_utc_date' = [current_utc_date EXCEPT ![k] = get_current_utc_date]
    /\ buffer' = [buffer EXCEPT ![k] = <<>>]
    /\ pq_pc' = [pq_pc EXCEPT ![k] = "wait"]
    /\ UNCHANGED <<supVars, maintVars, today, tree, message_queues, last_utc_date,
                   log_counter, arrived, recv_date, sent_date, write_failed,
                   flushes>>

\* Lines 104-108 of the variant: queue.get returns a message and its text is
\* appended; at the threshold the next await is the write, otherwise the
\* inner loop waits again (the date is not read).
VGet(k) ==
    /\ pq_pc[k] = "wait"
    /\ message_queues[k] # <<>>
    /\ LET m == Head(message_queues[k])
           buf == Append(buffer[k], json_dumps(m))
       IN /\ message_queues' = [message_queues EXCEPT ![k] = Tail(@)]
          /\ buffer' = [buffer EXCEPT ![k] = buf]
          /\ recv_date' = [recv_date EXCEPT ![k] = Append(@, today)]
          /\ pq_pc' = [pq_pc EXCEPT ![k] =
                          IF ThresholdReached(buf) THEN "write" ELSE "wait"]
    /\ UNCHANGED <<supVars, maintVars, today, tree, last_utc_date,
                   current_utc_date, log_counter, arrived, sent_date,
                   write_failed, flushes>>

\* Lines 112-113 of the variant: queue.get times out with a non-empty buffer,
\* which is written next.  (With an empty buffer the inner loop waits again
\* and nothing changes.)
VTimeout(k) ==
    /\ pq_pc[k] = "wait"
    /\ message_queues[k] = <<>>
    /\ TimeoutFlushes(buffer[k])
    /\ pq_pc' = [pq_pc EXCEPT ![k] = "write"]
    /\ UNCHANGED <<supVars, maintVars, today, tree, message_queues, buffer,
                   last_utc_date, current_utc_date, log_counter, arrived,
                   recv_date, sent_date, write_failed, flushes>>

\* Lines 109-111 and 114-116 of the variant: the buffer is appended to
\* csv_file, named when the outer loop was entered, and cleared; the inner
\* loop waits again.
VWrite(k) ==
    /\ pq_pc[k] = "write"
    /\ tree' = AppendToFile(tree, CsvFile(k, current_utc_date[k]), buffer[k],
                            Now(tree))
    /\ flushes' = [flushes EXCEPT ![k] = Append(@, Len(buffer[k]))]
    /\ buffer' = [buffer EXCEPT ![k] = buffer_clear(@)]
    /\ pq_pc' = [pq_pc EXCEPT ![k] = "wait"]
    /\ UNCHANGED <<supVars, maintVars, today, message_queues, last_utc_date,
                   current_utc_date, log_counter, arrived, recv_date, sent_date,
                   write_failed>>

\* Lines 125-130 of the variant: a pass reads the date and walks the folder;
\* the files it will handle are the .csv files not named for that date.
VCompList == CompList

\* Lines 131-135 of the variant: compress_file runs in a thread for the next
\* file of the walk, one file at a time; its errors are caught inside.
VCompCompress(f, ok) == comp_rm = {} /\ CompCompress(f, ok)

\* Line 138 of the variant: os.remove(csv_path).
VCompRemove(f) == f \in DOMAIN tree /\ CompRemove(f)

\* Lines 141-142 of the variant: the walk is over and the task sleeps for a
\* day before its next pass.
VCompDone == CompDone

VariantStep(k) ==
    \/ VStart(k)
    \/ VGet(k)
    \/ VTimeout(k)
    \/ VWrite(k)

VariantCompactorStep ==
    \/ VCompList
    \/ \E f \in comp_todo : \E ok \in BOOLEAN : VCompCompress(f, ok)
    \/ \E f \in comp_rm : VCompRemove(f)
    \/ VCompDone

\* ---------------------------------------------------------- specifications

EmptyTree == [f \in {} |-> [lines |-> <<>>, size |-> 0, mtime |-> 0]]

InitBufferVars ==
    /\ message_queues = [k \in {} |-> <<>>]
    /\ pq_pc = [k \in AllKeys |-> "none"]
    /\ buffer = [k \in AllKeys |-> <<>>]
    /\ last_utc_date = [k \in AllKeys |-> 0]
    /\ current_utc_date = [k \in AllKeys |-> 0]
    /\ log_counter = 0
    /\ arrived = [k \in AllKeys |-> <<>>]
    /\ recv_date = [k \in AllKeys |-> <<>>]
    /\ sent_date = [k \in AllKeys |-> <<>>]
    /\ write_failed = FALSE
    /\ flushes = [k \in AllKeys |-> <<>>]

\* No connect_and_listen task has been created.
InitSupIdle ==
    /\ sup_pc = [c \in Channels |-> "idle"]
    /\ backoff = [c \in Channels |-> RECONNECT_INITIAL_BACKOFF]
    /\ cur = [c \in Channels |-> 0]
    /\ hb = [c \in Channels |-> {}]
    /\ fails = [c \in Channels |-> 0]
    /\ inbound = [c \in Channels |-> <<>>]
    /\ unknown_log = [c \in Channels |-> <<>>]

InitLoopLocals ==
    /\ comp_todo = {}
    /\ comp_rm = {}
    /\ compress_failed = {}
    /\ file_paths = <<>>
    /\ enf_i = 0
    /\ file_size = 0
    /\ pass_start = EmptyTree

InitMaintLocals == InitSupIdle /\ InitLoopLocals

\* The process as its modules are loaded, over a tree an earlier run left.
Init ==
    /\ today = 0
    /\ tree \in LeftoverTrees({LeftoverNames}, FALSE)
    /\ InitBufferVars
    /\ InitMaintLocals
    /\ main_pc = "init"
    /\ current_folder_size = 0
    /\ comp_pc = "idle"
    /\ enf_pc = "idle"

StoreArrive == \E k \in Keys : save_message(k, MaxStoreArrivals)

Next ==
    \/ AdvanceDate
    \/ MainInitSize
    \/ StoreArrive
    \/ TopicBufferStep({TRUE})
    \/ CompactorStep
    \/ EnforcerStep

\* The whole process: main, the Router and Topic Buffer of a key, the Compactor
\* and the Retention Enforcer over one tree.  The writes of the Topic Buffer
\* succeed here; the compressions of the Compactor may fail.
Spec == Init /\ [][Next]_vars

\* The process after a start-up over an empty tree, with the maintenance loops
\* asleep for good.
InitBuffer ==
    /\ today = 0
    /\ tree = EmptyTree
    /\ InitBufferVars
    /\ InitMaintLocals
    /\ main_pc = "running"
    /\ current_folder_size = 0
    /\ comp_pc = "list"
    /\ enf_pc = "check"

NextBuffer ==
    \/ AdvanceDate
    \/ Arrive
    \/ TopicBufferStep(BOOLEAN)

\* The Router and the Topic Buffer of a key while the maintenance loops sleep.
SpecBuffer == InitBuffer /\ [][NextBuffer]_vars

\* The process after a start-up over a tree no compaction pass touches, with
\* no record arriving: the counter holds the bytes of the tree and the
\* Retention Enforcer is about to check it.
InitRetention ==
    /\ today = 0
    /\ tree \in LeftoverTrees(SUBSET AtRestNames, TRUE)
    /\ InitBufferVars
    /\ InitMaintLocals
    /\ main_pc = "running"
    /\ current_folder_size = calculate_folder_size(tree)
    /\ comp_pc = "list"
    /\ enf_pc = "check"

\* The check of a pass, recording the tree it starts from.
RetCheck == EnfCheckCore /\ pass_start' = tree

NextRetention ==
    \/ RetCheck
    \/ EnfGetsize
    \/ EnfRemove

\* The Retention Enforcer alone over a tree at rest.
SpecRetention == InitRetention /\ [][NextRetention]_vars

\* The process after a start-up over a tree no compaction pass touches, with
\* archives twice the size of a .csv.
InitLive ==
    /\ today = 0
    /\ tree \in LeftoverTrees(SUBSET AtRestNames, FALSE)
    /\ InitBufferVars
    /\ InitMaintLocals
    /\ main_pc = "running"
    /\ current_folder_size = calculate_folder_size(tree)
    /\ comp_pc = "list"
    /\ enf_pc = "check"

NextLive ==
    \/ AdvanceDate
    \/ StoreArrive
    \/ TopicBufferStep({TRUE})
    \/ EnforcerStep

\* The Router, the Topic Buffer of a key and the Retention Enforcer between two
\* passes of the Compactor (which sleeps for COMPRESSION_SLEEP_INTERVAL).
SpecLive == InitLive /\ [][NextLive]_vars

\* The files of the key after a start-up pass, which leaves no .csv of an
\* earlier date: today's .csv and the archive of the day before.
MaintNames == {f \in AtRestNames : f.key \in Keys}

\* The process after its start-up pass, over the key's file of today and its
\* archive of the day before.
InitMaint ==
    /\ today = 0
    /\ tree \in LeftoverTrees({MaintNames}, FALSE)
    /\ InitBufferVars
    /\ InitMaintLocals
    /\ main_pc = "running"
    /\ current_folder_size = calculate_folder_size(tree)
    /\ comp_pc = "list"
    /\ enf_pc = "check"

NextMaint ==
    \/ (today = 0 /\ AdvanceDate)
    \/ StoreArrive
    \/ TopicBufferStep({TRUE})
    \/ CompactorStep
    \/ EnforcerStep

\* The Compactor, the Retention Enforcer and the Topic Buffer of a key over
\* one tree, across the first date change.  The event loop runs every task that is
\* ready and an executor call returns: both maintenance loops keep taking
\* steps.
SpecMaint ==
    InitMaint /\ [][NextMaint]_vars
        /\ WF_vars(CompactorStep) /\ WF_vars(EnforcerStep)

\* The names an earlier run may have left: of the key, the .csv of the day
\* before and of today; of another topic, the .csv and the archive of the
\* day before.
CompactNames == LeftoverNames \cup {CsvFile(OldKey, -1)}

\* The process after initialize_folder_size, over a tree an earlier run left:
\* the start-up pass of the Compactor is next.
InitCompact ==
    /\ today = 0
    /\ tree \in LeftoverTrees(SUBSET CompactNames, FALSE)
    /\ InitBufferVars
    /\ InitMaintLocals
    /\ main_pc = "startup"
    /\ current_folder_size = calculate_folder_size(tree)
    /\ comp_pc = "list"
    /\ enf_pc = "idle"

\* The listing of a pass, recording the tree it starts from.
CompListSnap == CompListCore /\ pass_start' = tree

NextCompact ==
    \/ CompListSnap
    \/ \E f \in comp_todo : \E ok \in BOOLEAN : CompCompress(f, ok)
    \/ \E f \in comp_rm : CompRemove(f)
    \/ \E f \in comp_rm : CompRemoveFails(f)
    \/ CompDone

\* The passes of the Compactor, from the start-up pass on, over a tree nothing
\* else writes to.  The gather of a pass runs every coroutine it was given.
SpecCompact == InitCompact /\ [][NextCompact]_vars /\ WF_vars(NextCompact)

\* The names an earlier run may have left: the key's .csv of the day before
\* and of today, and the .csv of the day before of another topic.
StartupNames ==
    {CsvFile(k, d) : k \in Keys, d \in {-1, 0}} \cup {CsvFile(OldKey, -1)}

\* The process when asyncio.run(main()) starts main, over an empty tree or a
\* tree an earlier run left: no task exists.
InitStartup ==
    /\ today = 0
    /\ tree \in LeftoverTrees({{}, StartupNames}, FALSE)
    /\ InitBufferVars
    /\ InitMaintLocals
    /\ main_pc = "init"
    /\ current_folder_size = 0
    /\ comp_pc = "idle"
    /\ enf_pc = "idle"

\* A step of main or of the pass it awaits, or of the periodic Compactor.
MainStep == MainInitSize \/ NextCompact

\* A step of the process_queue task of key k on one date.
StartupBufferStep(k) ==
    \/ PQStart(k)
    \/ PQGet(k)
    \/ PQTimeout(k)
    \/ PQWrite(k, TRUE)

\* A step of connect_and_listen(c) on a connection that stays open.
StartupSupStep(c) ==
    \/ SupConnect(c, TRUE)
    \/ SupSubscribe(c, TRUE)
    \/ SupConfirm(c, TRUE)
    \/ SupRecv(c)

NextStartup ==
    \/ MainStep
    \/ StartupSupStep("linear")
    \/ \E k \in Keys : StartupBufferStep(k)

\* main from its first line on, with the Connection Supervisor of one channel
\* group and the Topic Buffer it feeds, on one date.  main runs until it
\* waits in the TaskGroup: the coroutines it awaits return.
SpecStartup == InitStartup /\ [][NextStartup]_vars /\ WF_vars(MainStep)

\* A step of the Compactor whose compressions all succeed.
DurableCompactorStep ==
    \/ CompList
    \/ \E f \in comp_todo : CompCompress(f, TRUE)
    \/ \E f \in comp_rm : CompRemove(f)
    \/ CompDone

NextDurable ==
    \/ AdvanceDate
    \/ StoreArrive
    \/ TopicBufferStep({TRUE})
    \/ DurableCompactorStep

\* The Router and the Topic Buffer of a key with the periodic Compactor, after
\* a start-up over the key's file of today and its archive of the day before:
\* no write and no compression fails and the Retention Enforcer, under its
\* budget, deletes nothing.
SpecDurable == InitMaint /\ [][NextDurable]_vars

\* The process once main has created the connect_and_listen tasks, over an
\* empty tree: every task is at its first connect attempt.
InitSupervisor ==
    /\ today = 0
    /\ tree = EmptyTree
    /\ InitBufferVars
    /\ InitLoopLocals
    /\ main_pc = "running"
    /\ current_folder_size = 0
    /\ comp_pc = "list"
    /\ enf_pc = "check"
    /\ sup_pc = [c \in Channels |-> "connect"]
    /\ backoff = [c \in Channels |-> RECONNECT_INITIAL_BACKOFF]
    /\ cur = [c \in Channels |-> 0]
    /\ hb = [c \in Channels |-> {}]
    /\ fails = [c \in Channels |-> 0]
    /\ inbound = [c \in Channels |-> <<>>]
    /\ unknown_log = [c \in Channels |-> <<>>]

NextSupervisor ==
    \/ \E c \in Channels : SupervisorStep(c)
    \/ \E c \in Channels : HeartbeatStep(c)

\* The Connection Supervisors of the channel groups with their heartbeat tasks
\* and the Router.
SpecSupervisor == InitSupervisor /\ [][NextSupervisor]_vars

\* The process while the Connection Supervisor of "linear" is in the inbound
\* loop of its first connection, over an empty tree.
InitInbound ==
    /\ today = 0
    /\ tree = EmptyTree
    /\ InitBufferVars
    /\ InitLoopLocals
    /\ main_pc = "running"
    /\ current_folder_size = 0
    /\ comp_pc = "list"
    /\ enf_pc = "check"
    /\ sup_pc = [c \in Channels |-> IF c = "linear" THEN "streaming" ELSE "connect"]
    /\ backoff = [c \in Channels |-> RECONNECT_INITIAL_BACKOFF]
    /\ cur = [c \in Channels |-> IF c = "linear" THEN 1 ELSE 0]
    /\ hb = [c \in Channels |-> IF c = "linear" THEN {1} ELSE {}]
    /\ fails = [c \in Channels |-> 0]
    /\ inbound = [c \in Channels |-> <<>>]
    /\ unknown_log = [c \in Channels |-> <<>>]

NextInbound ==
    \/ AdvanceDate
    \/ InboundStep("linear")
    \/ TopicBufferStep({TRUE})

\* The inbound loop of one connection with the Router and the Topic Buffers
\* it feeds, with no write failure.
SpecInbound == InitInbound /\ [][NextInbound]_vars

\* The process when the Connection Supervisor of "linear" has sent the
\* subscribe request on its first connection, over an empty tree.
InitSubscribed ==
    /\ today = 0
    /\ tree = EmptyTree
    /\ InitBufferVars
    /\ InitLoopLocals
    /\ main_pc = "running"
    /\ current_folder_size = 0
    /\ comp_pc = "list"
    /\ enf_pc = "check"
    /\ sup_pc = [c \in Channels |-> IF c = "linear" THEN "confirm" ELSE "connect"]
    /\ backoff = [c \in Channels |-> RECONNECT_INITIAL_BACKOFF]
    /\ cur = [c \in Channels |-> IF c = "linear" THEN 1 ELSE 0]
    /\ hb = [c \in Channels |-> {}]
    /\ fails = [c \in Channels |-> 0]
    /\ inbound = [c \in Channels |-> <<>>]
    /\ unknown_log = [c \in Channels |-> <<>>]

NextSubscribed ==
    \/ \E fr \in ConfirmFrames("linear") : SupConfirmRecv("linear", fr)
    \/ SupConfirm("linear", TRUE)
    \/ InboundStep("linear")
    \/ \E k \in Keys : StartupBufferStep(k)

\* One connection from the subscribe request on: the wait for the response
\* (a frame, or the timeout), the inbound loop, the Router and the Topic
\* Buffers it feeds, on one date.
SpecSubscribed == InitSubscribed /\ [][NextSubscribed]_vars

NextSetup ==
    \/ AdvanceDate
    \/ Arrive
    \/ TopicBufferStep({TRUE})
    \/ \E k \in Keys : PQSetupFails(k)

\* The Router and the Topic Buffer of a key from the creation of its task
\* on, whose set-up may raise, with no write failure.  The event loop runs
\* every task that is ready.
SpecSetup ==
    InitBuffer /\ [][NextSetup]_vars /\ WF_vars(TopicBufferStep({TRUE}))

NextVariant ==
    \/ AdvanceDate
    \/ VArrive
    \/ \E k \in Keys : VariantStep(k)
    \/ VariantCompactorStep

\* The variant bybit-listener.py: its Router, the process_queue task of a key
\* and its periodic compression task over an empty tree, with no error in
\* process_queue.
SpecVariant == InitBuffer /\ [][NextVariant]_vars

\* ------------------------------------------------- claims: the Topic Buffer

\* The serialized records of a key in arrival order.
ArrivedLines(k) == [i \in 1..Len(arrived[k]) |-> json_dumps(arrived[k][i])]

RECURSIVE ConcatDates(_, _)
\* The text of the key's .csv files of dates 0..d, one file after the other.
ConcatDates(k, d) ==
    IF d < 0 THEN <<>>
    ELSE ConcatDates(k, d - 1) \o
         (IF CsvFile(k, d) \in DOMAIN tree THEN tree[CsvFile(k, d)].lines ELSE <<>>)

\* Everything the key's files hold, in date order (the order of the flushes).
FileConcat(k) == ConcatDates(k, MaxDate)

QueueOf(k) == IF k \in DOMAIN message_queues THEN message_queues[k] ELSE <<>>

\* C1: with no write failure, what process_queue has written for a key (all
\* dated files, in flush order) is a prefix of the serialized records in
\* arrival order, and is the whole arrival sequence once the queue and the
\* buffer are both empty.
C1_WrittenIsArrivalPrefix ==
    \A k \in Keys :
        ~write_failed =>
            /\ IsPrefix(FileConcat(k), ArrivedLines(k))
            /\ (QueueOf(k) = <<>> /\ buffer[k] = <<>>
                    => FileConcat(k) = ArrivedLines(k))

\* C1 witness: several flushes without failure, to the files of two dates, have
\* written every arrived record.
C1_Witness ==
    \E k \in Keys :
        /\ ~write_failed
        /\ Len(arrived[k]) >= 3
        /\ QueueOf(k) = <<>> /\ buffer[k] = <<>>
        /\ \A d \in 0..1 : CsvFile(k, d) \in DOMAIN tree
        /\ FileConcat(k) = ArrivedLines(k)

\* C2: a record that was put on the queue and dequeued by the Topic Buffer
\* while the date was D (received on D, whichever of the two is meant) is
\* written only to the file named for D.
C2_RecordInFileOfItsDate ==
    \A k \in Keys : \A d \in Dates :
        CsvFile(k, d) \in DOMAIN tree =>
            \A line \in Range(tree[CsvFile(k, d)].lines) :
                LET i == RecordOf(line)
                IN sent_date[k][i] = recv_date[k][i] => recv_date[k][i] = d

\* C3: the records of a flush that failed are not dropped: every record the
\* Topic Buffer has dequeued is in the pending buffer or in a file.
C3_FailedFlushKeepsRecords ==
    \A k \in Keys : \A i \in 1..Len(recv_date[k]) :
        json_dumps(arrived[k][i]) \in Range(buffer[k]) \cup Range(FileConcat(k))

\* C10: the pending buffer never holds more than BUFFER_LIMIT records; when
\* an append brings it to BUFFER_LIMIT the flush is the next step of the task,
\* and at every wait on queue.get (and at a rollover write) the buffer holds
\* fewer than BUFFER_LIMIT records.
C10_BufferBelowLimit ==
    \A k \in Keys :
        /\ Len(buffer[k]) <= BUFFER_LIMIT
        /\ pq_pc[k] \in {"wait", "roll_write"} => Len(buffer[k]) < BUFFER_LIMIT
        /\ Len(buffer[k]) = BUFFER_LIMIT => pq_pc[k] = "write"

\* C10 witness: an append has brought the buffer to BUFFER_LIMIT while more
\* records wait in the queue; the task is at the flush.
C10_Witness ==
    \E k \in Keys :
        /\ pq_pc[k] = "write"
        /\ Len(buffer[k]) = BUFFER_LIMIT
        /\ QueueOf(k) # <<>>

\* The event loop runs every task that is ready, and a wait on queue.get ends
\* with a message or with its timeout: the Topic Buffer keeps taking steps.
SpecBufferFair == SpecBuffer /\ WF_vars(TopicBufferStep(BOOLEAN))

\* C11: a timeout of queue.get with a non-empty buffer is followed by the
\* write, which empties the buffer; and once no further record arrives the
\* buffer is flushed and stays empty.
C11_IdleFlush ==
    /\ [][\A k \in Keys :
            /\ (pq_pc[k] = "wait" /\ QueueOf(k) = <<>> /\ buffer[k] # <<>>
                    /\ pq_pc'[k] # "wait")
                   => (pq_pc'[k] = "write" /\ buffer'[k] = buffer[k])
            /\ (pq_pc[k] = "write" /\ pq_pc'[k] # "write")
                   => /\ buffer'[k] = <<>>
                      /\ flushes'[k] = Append(flushes[k], Len(buffer[k]))]_vars
    /\ \A k \in Keys : <>[](buffer[k] = <<>>)

\* C11 witness: one record arrived, queue.get timed out and the record was
\* written to today's file; the buffer is empty.
C11_Witness ==
    \E k \in Keys :
        /\ today = 0
        /\ ~write_failed
        /\ Len(arrived[k]) = 1
        /\ flushes[k] = <<1>>
        /\ buffer[k] = <<>>
        /\ CsvFile(k, 0) \in DOMAIN tree
        /\ tree[CsvFile(k, 0)].lines = ArrivedLines(k)

\* The scenario's burst, in units of BUFFER_LIMIT: two and a half batches
\* (250 records for a BUFFER_LIMIT of 100).
BurstSize == 2 * BUFFER_LIMIT + BUFFER_LIMIT \div 2

BurstArrive == \E k \in Keys : save_message(k, BurstSize)

\* The records arrive within less than one WRITE_INTERVAL: every wait on
\* queue.get that starts before the last arrival ends with a record, so a
\* timeout fires only after the whole burst has arrived.
BurstTimeout == \E k \in Keys : Len(arrived[k]) = BurstSize /\ PQTimeout(k)

NextBurst ==
    \/ BurstArrive
    \/ \E k \in Keys : PQStart(k)
    \/ \E k \in Keys : PQGet(k)
    \/ \E k \in Keys : PQWrite(k, TRUE)
    \/ BurstTimeout

\* The Router and the Topic Buffer of a key for one burst of BurstSize records
\* on one date, with no write failure, over a tree an earlier run left (which
\* may hold today's file of the key: the writes append to it).
SpecBurst == InitLive /\ [][NextBurst]_vars

\* The lines of today's file of the key that this run wrote, provided they
\* follow the lines an earlier run left.
WrittenToday(k) ==
    LET f == CsvFile(k, 0)
        lines == IF f \in DOMAIN tree THEN tree[f].lines ELSE <<>>
        IsOld(l) == RecordOf(l) < 0
        IsNew(l) == RecordOf(l) > 0
    IN IF lines = SelectSeq(lines, IsOld) \o SelectSeq(lines, IsNew)
       THEN SelectSeq(lines, IsNew)
       ELSE <<"misplaced">>

\* The writes of the scenario: two full batches, then the remainder.
BurstFlushes == <<BUFFER_LIMIT, BUFFER_LIMIT, BurstSize - 2 * BUFFER_LIMIT>>

RECURSIVE SumSeq(_)
SumSeq(q) == IF q = <<>> THEN 0 ELSE Head(q) + SumSeq(Tail(q))

\* C12: in the burst scenario the writes are, in order, BUFFER_LIMIT records,
\* BUFFER_LIMIT records and the remainder; the first two are threshold writes,
\* the remainder stays pending while queue.get waits and is written in one
\* write after the idle timeout; the file holds the records written so far in
\* arrival order.
C12_BurstFlushes ==
    \A k \in Keys :
        /\ IsPrefix(flushes[k], BurstFlushes)
        /\ WrittenToday(k) = SubSeq(ArrivedLines(k), 1, SumSeq(flushes[k]))
        /\ (Len(arrived[k]) = BurstSize /\ QueueOf(k) = <<>> /\ pq_pc[k] = "wait")
               => \/ /\ Len(flushes[k]) = 2
                     /\ buffer[k] = SubSeq(ArrivedLines(k), 2 * BUFFER_LIMIT + 1,
                                            BurstSize)
                  \/ /\ flushes[k] = BurstFlushes
                     /\ buffer[k] = <<>>
        /\ Len(flushes[k]) = 3
               => (Len(arrived[k]) = BurstSize /\ QueueOf(k) = <<>>)

\* C12 witness: the burst has arrived and its three writes are done.
C12_Witness ==
    \E k \in Keys :
        /\ Len(arrived[k]) = BurstSize
        /\ flushes[k] = BurstFlushes
        /\ buffer[k] = <<>>
        /\ WrittenToday(k) = ArrivedLines(k)
        /\ Len(tree[CsvFile(k, 0)].lines) > BurstSize

Shutdown == \E k \in Keys : \E wrote \in BOOLEAN : PQCancel(k, wrote)

NextShutdown ==
    \/ AdvanceDate
    \/ Arrive
    \/ TopicBufferStep({TRUE})
    \/ Shutdown

\* The Router and the Topic Buffer of a key, with no write failure, until the
\* process is interrupted.
SpecShutdown == InitBuffer /\ [][NextShutdown]_vars

\* C13: when the process_queue task of a key has exited at shutdown, every
\* record it had dequeued is in a file: the pending buffer was flushed first.
C13_FinalFlushAtShutdown ==
    \A k \in Keys :
        pq_pc[k] = "cancelled" =>
            \A i \in 1..Len(recv_date[k]) :
                json_dumps(arrived[k][i]) \in Range(FileConcat(k))

C24_RolloverAtomic ==
    [][\A k \in Keys :
          pq_pc[k] = "roll_write" =>
             \/ /\ pq_pc'[k] = "roll_write"
                /\ buffer'[k] = buffer[k]
                /\ last_utc_date'[k] = last_utc_date[k]
                /\ recv_date'[k] = recv_date[k]
                /\ IsPrefix(QueueOf(k), message_queues'[k])
             \/ /\ pq_pc'[k] = "wait"
                /\ buffer[k] # <<>>
                /\ last_utc_date[k] # current_utc_date[k]
                /\ buffer'[k] = <<>>
                /\ last_utc_date'[k] = current_utc_date[k]
                /\ message_queues'[k] = message_queues[k]
                /\ recv_date'[k] = recv_date[k]
                /\ tree' \in {tree, AppendToFile(tree, CsvFile(k, last_utc_date[k]),
                                                 buffer[k], Now(tree))}]_vars

\* C24 witness: the rollover write is in flight with a record pending, and
\* a record put on the new date waits in the queue.
C24_Witness ==
    \E k \in Keys :
        /\ pq_pc[k] = "roll_write"
        /\ buffer[k] # <<>>
        /\ today # last_utc_date[k]
        /\ QueueOf(k) # <<>>
        /\ sent_date[k][Len(sent_date[k])] = today
        /\ Len(recv_date[k]) < Len(sent_date[k])

\* The keys of two topics, one of each channel group.
ErrKeys == {k \in AllKeys : k[2] # "unknown"}

\* A step of the process_queue task of key k, with or without an exception.
ContainStep(k) ==
    \/ PutMessage(k, MaxStoreArrivals) /\ UNCHANGED supVars
    \/ PQStart(k)
    \/ PQGet(k)
    \/ PQTimeout(k)
    \/ PQWrite(k, TRUE)
    \/ \E took \in BOOLEAN : PQError(k, took)
    \/ PQErrWake(k)

NextContain == \E k \in ErrKeys : ContainStep(k)

\* The Router and the Topic Buffers of two keys on one date, where any
\* iteration may raise.  An asyncio.sleep returns once its delay has passed.
SpecContain ==
    InitBuffer /\ [][NextContain]_vars
        /\ \A k \in ErrKeys : WF_vars(PQErrWake(k))

\* C25: an exception in an iteration of a key's loop ends neither the
\* process nor the task: the task goes to the one-second sleep with its
\* pending buffer as it was, and resumes from the sleep at the top of the
\* loop with that buffer; neither step changes the task, buffer, queue or
\* dates of another key; and every such sleep ends.
C25_ErrorContained ==
    /\ [](/\ main_pc = "running"
          /\ \A k \in ErrKeys :
                pq_pc[k] \in {"none", "start", "wait", "write", "roll_write",
                              "error_sleep"})
    /\ [][\A k \in ErrKeys :
             ((pq_pc'[k] = "error_sleep") # (pq_pc[k] = "error_sleep"))
                => /\ buffer'[k] = buffer[k]
                   /\ pq_pc[k] # "error_sleep" => last_utc_date'[k] = last_utc_date[k]
                   /\ pq_pc[k] = "error_sleep" => pq_pc'[k] \in {"wait", "roll_write"}
                   /\ \A j \in ErrKeys \ {k} :
                         /\ pq_pc'[j] = pq_pc[j]
                         /\ buffer'[j] = buffer[j]
                         /\ QueueOf(j)' = QueueOf(j)
                         /\ last_utc_date'[j] = last_utc_date[j]
                         /\ current_utc_date'[j] = current_utc_date[j]]_vars
    /\ \A k \in ErrKeys :
          (pq_pc[k] = "error_sleep") ~> (pq_pc[k] # "error_sleep")

\* C25 witness: the task of one key sleeps after an exception with a record
\* pending, while the task of another key has written its record and waits
\* for the next.
C25_Witness ==
    \E k, j \in ErrKeys :
        /\ k # j
        /\ pq_pc[k] = "error_sleep"
        /\ buffer[k] # <<>>
        /\ pq_pc[j] = "wait"
        /\ flushes[j] # <<>>
        /\ CsvFile(j, 0) \in DOMAIN tree

\* ------------------------------------- claims: Compactor, Retention Enforcer

\* A step of compress_and_remove_file that runs os.remove for f.
CompRemoves(f) == f \in comp_rm /\ f \notin comp_rm'

\* C4: a file whose compression failed is not removed by the Compactor: after
\* the os.remove step of compress_and_remove_file the original .csv is still
\* there, unchanged.
C4_OriginalKeptOnFailure ==
    [][\A f \in DOMAIN tree :
          (CompRemoves(f) /\ f \in compress_failed)
              => (f \in DOMAIN tree' /\ tree'[f] = tree[f])]_vars

\* A step of enforce_folder_size_limit that returns from os.remove.
EnfRemoveStep == enf_pc = "remove" /\ enf_pc' # "remove"

\* C5: the Retention Enforcer never deletes a file named for today's date.
C5_EnforcerSparesToday ==
    [][EnfRemoveStep =>
          \A f \in DOMAIN tree \ DOMAIN tree' : f.date # today]_vars

\* C6: whenever enforce_folder_size_limit is to compare current_folder_size
\* with the budget, the counter equals the bytes of the files under CSV_FOLDER.
C6_CounterEqualsTree ==
    enf_pc = "check" => current_folder_size = calculate_folder_size(tree)

\* C7: when a pass of the Retention Enforcer completes, the bytes stored are
\* at most the budget, unless every remaining file is exempt (named for today).
C7_WithinBudgetAfterPass ==
    [][(enf_pc \in {"getsize", "remove"} /\ enf_pc' = "check")
          => \/ calculate_folder_size(tree') <= CSV_FOLDER_SIZE_LIMIT
             \/ \A f \in DOMAIN tree' : f.date = today']_vars

\* The scenario: exactly three files of 500 bytes each (their modification
\* times are distinct in every tree) under a budget of 1000 bytes.
Scenario(tr) ==
    /\ CSV_FOLDER_SIZE_LIMIT = 1000
    /\ Cardinality(DOMAIN tr) = 3
    /\ \A f \in DOMAIN tr : tr[f].size = 500

Oldest(tr) == CHOOSE f \in DOMAIN tr : \A g \in DOMAIN tr : tr[f].mtime <= tr[g].mtime

Newest(tr) == CHOOSE f \in DOMAIN tr : \A g \in DOMAIN tr : tr[g].mtime <= tr[f].mtime

\* C8 as stated: in the scenario one pass deletes the two oldest files and
\* leaves exactly the newest file, 500 bytes in total.
C8_ScenarioLeavesNewestOnly ==
    (enf_pc = "check" /\ Scenario(pass_start)) =>
        /\ DOMAIN tree = {Newest(pass_start)}
        /\ calculate_folder_size(tree) = 500

\* C8 amended: in the scenario one pass deletes the oldest file only and
\* leaves the two newer files, 1000 bytes in total (the counter says so too).
C8_ScenarioDeletesOldestOnly ==
    (enf_pc = "check" /\ Scenario(pass_start)) =>
        /\ DOMAIN tree = DOMAIN pass_start \ {Oldest(pass_start)}
        /\ \A f \in DOMAIN tree : tree[f] = pass_start[f]
        /\ calculate_folder_size(tree) = 1000
        /\ current_folder_size = 1000

\* C8 witness: a pass over the scenario's tree has completed.
C8_Witness ==
    /\ enf_pc = "check"
    /\ Scenario(pass_start)
    /\ Cardinality(DOMAIN tree) = 2

\* The file the loop of the Retention Enforcer is at.
EnfFile == file_paths[enf_i].path

\* A step of enforce_folder_size_limit that deletes the file it is at.
EnfDeletes == EnfRemoveStep /\ EnfFile \in DOMAIN tree

\* C9 as stated: a file is deleted only while the running total is over the
\* budget, the total is decremented by the size of the deleted file, and no
\* file is deleted while an older file exists that the pass has not tried.
C9_OldestFirstInPass ==
    [][EnfDeletes =>
          /\ OverBudget(current_folder_size)
          /\ current_folder_size' = current_folder_size - tree[EnfFile].size
          /\ \A g \in DOMAIN tree \ {EnfFile} :
                tree[g].mtime < tree[EnfFile].mtime
                    => \E j \in 1..(enf_i - 1) : file_paths[j].path = g]_vars

\* C9 amended: a pass lists and deletes nothing when the running total is at
\* or below the budget at its start; otherwise it lists every file with its
\* modification time, walks that list once in ascending order of the listed
\* times, deletes only the file it is at, decrements the total by the size it
\* read for that file just before the deletion, and is in the loop only while
\* the total is over the budget.
C9_ListedOrderInPass ==
    [][/\ (enf_pc = "check" /\ ~OverBudget(current_folder_size)) =>
              /\ enf_pc' = "check"
              /\ current_folder_size' = current_folder_size
       /\ (enf_pc = "check" /\ enf_pc' # "check") =>
              /\ {file_paths'[j] : j \in 1..Len(file_paths')}
                     = get_all_files_with_mtime(tree)
              /\ Len(file_paths') = Cardinality(DOMAIN tree)
              /\ enf_i' = 1
              /\ tree' = tree
       /\ enf_pc' \in {"getsize", "remove"} =>
              /\ OverBudget(current_folder_size')
              /\ enf_i' \in 1..Len(file_paths')
              /\ \A i, j \in 1..Len(file_paths') :
                    i < j => file_paths'[i].mtime <= file_paths'[j].mtime
       /\ (enf_pc \in {"getsize", "remove"} /\ enf_pc' \in {"getsize", "remove"}
             /\ enf_pc' # enf_pc) =>
              /\ file_paths' = file_paths
              /\ enf_i' = IF enf_pc' = "getsize" THEN enf_i + 1 ELSE enf_i
       /\ (enf_pc = "getsize" /\ enf_pc' = "remove") =>
              file_size' = tree[EnfFile].size
       /\ (enf_pc = "getsize" /\ enf_pc' # enf_pc) => tree' = tree
       /\ EnfRemoveStep =>
              IF EnfFile \in DOMAIN tree
              THEN /\ tree' = RemoveFile(tree, EnfFile)
                   /\ current_folder_size' = current_folder_size - file_size
              ELSE tree' = tree /\ current_folder_size' = current_folder_size
      ]_vars

\* C9 witness: a pass over three listed files has deleted the oldest listed
\* file, is still over the budget and has read the size of the next.
C9_Witness ==
    /\ enf_pc = "remove"
    /\ Len(file_paths) = 3
    /\ enf_i = 2
    /\ file_paths[1].path \notin DOMAIN tree
    /\ file_paths[2].path \in DOMAIN tree
    /\ file_size = tree[file_paths[2].path].size
    /\ OverBudget(current_folder_size)

\* ------------------------------------------ claims: Connection Supervisor

RECURSIVE Pow2(_)
Pow2(n) == IF n = 0 THEN 1 ELSE 2 * Pow2(n - 1)

\* C14: the delay slept after the k-th consecutive failed attempt (no connect
\* succeeded in between) is min(RECONNECT_INITIAL_BACKOFF * 2^(k-1),
\* RECONNECT_MAX_BACKOFF); the backoff stays between the floor and the cap;
\* while a connection is open the next delay is the floor.
C14_BackoffDelay ==
    \A c \in Channels :
        /\ backoff[c] >= RECONNECT_INITIAL_BACKOFF
        /\ backoff[c] <= RECONNECT_MAX_BACKOFF
        /\ sup_pc[c] = "sleep" =>
               /\ fails[c] >= 1
               /\ backoff[c] = Min(RECONNECT_INITIAL_BACKOFF * Pow2(fails[c] - 1),
                                   RECONNECT_MAX_BACKOFF)
        /\ sup_pc[c] \in {"subscribe", "confirm", "streaming"} =>
               backoff[c] = RECONNECT_INITIAL_BACKOFF

\* C14 witness: the task sleeps the capped delay after MaxFails consecutive
\* failures.
C14_Witness ==
    \E c \in Channels :
        /\ sup_pc[c] = "sleep"
        /\ fails[c] = MaxFails
        /\ backoff[c] = RECONNECT_MAX_BACKOFF

\* C15: the backoff is set back to its floor only by a step that brings the
\* connection to the Streaming state.
C15_ResetOnlyAtStreaming ==
    [][\A c \in Channels :
          (backoff[c] # RECONNECT_INITIAL_BACKOFF
              /\ backoff'[c] = RECONNECT_INITIAL_BACKOFF)
             => sup_pc'[c] = "streaming"]_vars

\* C16: every connect attempt that follows the end of a connection or of an
\* attempt is reached from the sleep of the backoff delay.
C16_SleepBeforeReconnect ==
    [][\A c \in Channels :
          (sup_pc[c] # "connect" /\ sup_pc'[c] = "connect")
             => sup_pc[c] = "sleep"]_vars

\* C17: at most one heartbeat task is alive per channel group.
C17_OneHeartbeatPerChannel ==
    \A c \in Channels : Cardinality(hb[c]) <= 1

\* C18: while the Connection Supervisor is in the inbound loop of a
\* connection, the heartbeat task of that connection is running.
C18_StreamingHasHeartbeat ==
    \A c \in Channels : sup_pc[c] = "streaming" => cur[c] \in hb[c]

NextLinear ==
    \/ SupervisorStep("linear")
    \/ HeartbeatStep("linear")

\* The Connection Supervisor of one channel group with its heartbeat tasks.
\* An asyncio.sleep returns once its delay has passed: the handler always
\* goes on to the next attempt.
SpecLinearFair ==
    InitSupervisor /\ [][NextLinear]_vars /\ WF_vars(SupWake("linear"))

\* C19: connect_and_listen never returns; every way an attempt or a connection
\* ends leads to the handler's sleep or straight to the next attempt, and
\* every sleep is followed by a new connect attempt.
C19_RetriesForever ==
    /\ [](sup_pc["linear"] \in
             {"connect", "subscribe", "confirm", "streaming", "sleep"})
    /\ [][sup_pc'["linear"] # sup_pc["linear"] =>
             sup_pc'["linear"] \in
                 CASE sup_pc["linear"] = "connect" -> {"subscribe", "sleep"}
                   [] sup_pc["linear"] = "subscribe" -> {"confirm", "sleep"}
                   [] sup_pc["linear"] = "confirm" -> {"streaming", "sleep"}
                   [] sup_pc["linear"] = "streaming" -> {"connect", "sleep"}
                   [] sup_pc["linear"] = "sleep" -> {"connect"}
                   [] OTHER -> {}]_vars
    /\ (sup_pc["linear"] = "sleep") ~> (sup_pc["linear"] = "connect")

\* C19 witness: after MaxFails consecutive failures the task is at a new
\* connect attempt.
C19_Witness ==
    sup_pc["linear"] = "connect" /\ fails["linear"] = MaxFails

\* The state of the Connection Supervisor of channel c.
SupState(c) == <<sup_pc[c], backoff[c], cur[c], fails[c]>>

\* The queues and Topic Buffer state of the keys of channel c.
ChannelQueues(c) ==
    <<[k \in {j \in DOMAIN message_queues : j[1] = c} |-> message_queues[k]],
      [k \in {j \in Keys : j[1] = c} |-> <<pq_pc[k], buffer[k]>>]>>

\* C20: a step of the Connection Supervisor of one channel group (a failure,
\* the end of its sleep, a reconnect) leaves the supervisor state, heartbeat
\* tasks, queues and pending buffers of every other channel group as they
\* were, and the Compactor, Retention Enforcer and main where they were.
C20_SupervisorsIndependent ==
    [][\A c \in Channels :
          SupState(c)' # SupState(c) =>
             /\ \A d \in Channels \ {c} :
                   /\ SupState(d)' = SupState(d)
                   /\ hb'[d] = hb[d]
                   /\ ChannelQueues(d)' = ChannelQueues(d)
             /\ UNCHANGED <<main_pc, comp_pc, enf_pc>>]_vars

\* C20 witness: one Connection Supervisor sleeps its second backoff delay
\* while another one streams with its backoff at the floor and a record of
\* its own queued.
C20_Witness ==
    \E c, d \in Channels :
        /\ c # d
        /\ sup_pc[c] = "sleep" /\ fails[c] = 2
        /\ sup_pc[d] = "streaming" /\ backoff[d] = RECONNECT_INITIAL_BACKOFF
        /\ \E k \in DOMAIN message_queues : k[1] = d /\ message_queues[k] # <<>>

\* ------------------------------------------------------- claims: the Router

\* C21: a key gets one queue and one process_queue task, both created by the
\* first save_message for the key and never again, whatever the other tasks
\* do in between; a key once in message_queues stays there with its queue;
\* every record of the key is put at the tail of that queue, so the queue
\* holds, in arrival order, the records the task has not yet taken.
C21_OneQueuePerKey ==
    /\ [](\A k \in Keys :
             /\ (k \in DOMAIN message_queues) <=> (pq_pc[k] # "none")
             /\ QueueOf(k) = SubSeq(arrived[k], Len(recv_date[k]) + 1,
                                    Len(arrived[k])))
    /\ [][\A k \in Keys :
             /\ k \in DOMAIN message_queues => k \in DOMAIN message_queues'
             /\ (pq_pc'[k] \in {"none", "start"} /\ pq_pc'[k] # pq_pc[k])
                    => /\ pq_pc[k] = "none" /\ pq_pc'[k] = "start"
                       /\ k \notin DOMAIN message_queues
                       /\ arrived'[k] # arrived[k]
             /\ arrived'[k] # arrived[k]
                    => message_queues'[k]
                          = Append(QueueOf(k), arrived'[k][Len(arrived'[k])])]_vars

\* C21 witness: records of the key arrived before its task first ran and
\* while it was at a write; the task has taken some and the rest wait, in
\* order, in the one queue.
C21_Witness ==
    \E k \in Keys :
        /\ Len(arrived[k]) = MaxArrivals
        /\ pq_pc[k] = "write"
        /\ Len(recv_date[k]) = BUFFER_LIMIT
        /\ Len(message_queues[k]) = MaxArrivals - BUFFER_LIMIT
        /\ sent_date[k][1] # sent_date[k][MaxArrivals]

\* --------------------------------------------------- claims: the inbound loop

\* The frame is a dict without a routable topic: no topic, or the sentinel.
Unroutable(fr) ==
    IsJson(fr) /\ IsDict(fr)
        /\ ("topic" \notin DOMAIN json_loads(fr) \/ json_loads(fr)["topic"] = "unknown")

\* The frame is a dict with any other topic.
Routable(fr) == IsJson(fr) /\ IsDict(fr) /\ ~Unroutable(fr)

\* The topics of the routable frames among fs, in order.
RoutedTopics(fs) ==
    LET r == SelectSeq(fs, Routable)
    IN [i \in 1..Len(r) |-> json_loads(r[i])["topic"]]

\* The dicts of the unroutable frames among fs, in order.
UnroutableData(fs) ==
    LET u == SelectSeq(fs, Unroutable)
    IN [i \in 1..Len(u) |-> json_loads(u[i])]

\* C22: of the frames the inbound loop has taken, exactly the dicts without
\* a topic or with the topic "unknown" have gone to the unknown-message log,
\* once each; none of them has a queue in message_queues or a line in a
\* file; and every dict with another topic was handed to save_message once:
\* the records of a key are the frames with its topic, in order.
C22_UnknownNeverRouted ==
    \A c \in Channels :
        /\ unknown_log[c] = UnroutableData(inbound[c])
        /\ \A k \in DOMAIN message_queues : k[2] # "unknown"
        /\ \A f \in DOMAIN tree : f.key[2] # "unknown"
        /\ \A k \in AllKeys :
               k[1] = c =>
                  [i \in 1..Len(arrived[k]) |-> arrived[k][i].topic]
                      = SelectSeq(RoutedTopics(inbound[c]), LAMBDA t : t = k[2])

\* C22 witness: a record with a topic, a message without topic and one with
\* the sentinel topic have been received; the log holds the last two and the
\* file of the topic holds the record.
C22_Witness ==
    /\ Len(unknown_log["linear"]) = 2
    /\ unknown_log["linear"][1] # unknown_log["linear"][2]
    /\ \E k \in Keys :
          /\ Len(arrived[k]) = 1
          /\ CsvFile(k, 0) \in DOMAIN tree
          /\ tree[CsvFile(k, 0)].lines = ArrivedLines(k)

\* C23: a turn of the inbound loop for a frame that is not JSON drops that
\* frame only: the connection stays in the inbound loop, its backoff and
\* heartbeat, the queues, the pending buffers, the files and the unknown log
\* are as before; and the frames after it are handled as if it had not been
\* sent (the log and the queues hold every later unroutable and routable
\* frame).
C23_DecodeFaultDropsOne ==
    /\ [][\A c \in Channels :
             (inbound'[c] # inbound[c] /\ ~IsJson(inbound'[c][Len(inbound'[c])]))
                => /\ sup_pc[c] = "streaming" /\ sup_pc'[c] = "streaming"
                   /\ inbound'[c] = Append(inbound[c], inbound'[c][Len(inbound'[c])])
                   /\ UNCHANGED <<backoff, cur, hb, fails, unknown_log,
                                  message_queues, buffer, arrived, pq_pc, tree>>]_vars
    /\ [](\A c \in Channels :
             /\ unknown_log[c] = UnroutableData(SelectSeq(inbound[c], IsJson))
             /\ \A k \in Keys :
                    k[1] = c =>
                       Len(arrived[k])
                           = Len(SelectSeq(RoutedTopics(SelectSeq(inbound[c], IsJson)),
                                           LAMBDA t : t = k[2])))

\* C23 witness: a frame that is not JSON came first; the record and the
\* unroutable message received after it on the same connection have been
\* queued and logged.
C23_Witness ==
    /\ Len(inbound["linear"]) = 3
    /\ ~IsJson(inbound["linear"][1])
    /\ sup_pc["linear"] = "streaming" /\ cur["linear"] = 1
    /\ Len(unknown_log["linear"]) = 1
    /\ \E k \in Keys : Len(arrived[k]) = 1

\* ------------------------------------- claims: the maintenance loops together

\* The Retention Enforcer has gone on from the listed file it was at.
EnfMoves == <<enf_pc, enf_i>>' # <<enf_pc, enf_i>>

\* A step of compress_and_remove_file for f: its compress or its remove.
CompHandles(f) ==
    \/ f \in comp_todo /\ f \notin comp_todo'
    \/ f \in comp_rm /\ f \notin comp_rm'

\* C27: neither maintenance loop ends on a file that changed since it was
\* listed.  The Retention Enforcer at a listed file that is gone (deleted,
\* or compressed into its archive) changes neither tree nor counter and goes
\* on to the next listed file, or ends the pass after the last; the
\* Compactor's compress and remove of a listed file that is gone change
\* nothing and leave its other files in the pass; a file that is still there
\* is handled whatever was written to it meanwhile; every pass ends, after
\* which the loop is at its next pass.
C27_MaintenanceTolerant ==
    /\ [](/\ main_pc = "running"
          /\ comp_pc \in {"list", "work"}
          /\ enf_pc \in {"check", "getsize", "remove"})
    /\ [][(enf_pc \in {"getsize", "remove"} /\ EnfMoves
              /\ EnfFile \notin DOMAIN tree)
             => /\ tree' = tree
                /\ current_folder_size' = current_folder_size
                /\ IF enf_i < Len(file_paths)
                   THEN /\ enf_pc' = "getsize"
                        /\ enf_i' = enf_i + 1
                        /\ file_paths' = file_paths
                   ELSE enf_pc' = "check"]_vars
    /\ [][\A f \in (comp_todo \cup comp_rm) \ DOMAIN tree :
             CompHandles(f)
                => /\ tree' = tree
                   /\ comp_pc' = "work"
                   /\ comp_todo' \ {f} = comp_todo \ {f}
                   /\ comp_rm' \ {f} = comp_rm \ {f}]_vars
    /\ (comp_pc = "work") ~> (comp_pc = "list")
    /\ (enf_pc \in {"getsize", "remove"}) ~> (enf_pc = "check")

\* C27 witness: the Retention Enforcer is at a listed .csv that the
\* Compactor has since compressed and removed, with more listed files to
\* go, while the Compactor's pass is still open.
C27_Witness ==
    /\ enf_pc = "getsize"
    /\ enf_i < Len(file_paths)
    /\ EnfFile \notin DOMAIN tree
    /\ GzPath(EnfFile) \in DOMAIN tree
    /\ comp_pc = "work"

\* ------------------------------------------------- claims: the Compactor

\* The files of tree tr a pass on date d is to compress: not compressed yet
\* and not named for d.
Eligible(tr, d) == {f \in DOMAIN tr : ~f.gz /\ f.date # d}

\* C28: once a pass over a tree nothing else writes to has completed, every
\* file it was to compress has an archive whose content is the content the
\* file had, and a further pass changes no file.
C28_CompactionIdempotent ==
    /\ []((main_pc = "running" /\ comp_pc = "list") =>
             \A f \in Eligible(pass_start, today) :
                /\ GzPath(f) \in DOMAIN tree
                /\ tree[GzPath(f)].lines = pass_start[f].lines)
    /\ [][main_pc = "running" => tree' = tree]_vars

\* C29: a pass lists exactly the files that are not compressed and not named
\* for today (and ends at once only when there is none); compressing a listed file creates its archive and changes no
\* file that was there (today's files and the archives there are stay as
\* they are); removing it removes that file only and leaves its archive.
C29_EligibleOnly ==
    [][/\ (comp_pc = "list" /\ comp_pc' = "work")
             => comp_todo' = Eligible(tree, today)
       /\ (comp_pc = "list" /\ main_pc = "startup" /\ main_pc' = "running")
             => Eligible(tree, today) = {}
       /\ \A f \in (comp_todo \ comp_todo') \cap DOMAIN tree :
             /\ ~f.gz
             /\ DOMAIN tree' = DOMAIN tree \cup {GzPath(f)}
             /\ \A g \in DOMAIN tree : tree'[g] = tree[g]
       /\ \A f \in (comp_rm \ comp_rm') \cap DOMAIN tree :
             /\ DOMAIN tree' = DOMAIN tree \ {f}
             /\ \A g \in DOMAIN tree' : tree'[g] = tree[g]]_vars

\* C30: whatever fails for one file of a pass, when the pass ends every other
\* file it listed is compressed (its archive holds the content it had) and
\* removed; the Compactor never ends, and every pass ends, after which the
\* loop is at its next pass.
C30_FailureDoesNotAbortPass ==
    /\ [](comp_pc \in {"list", "work"})
    /\ [][(comp_pc = "work" /\ comp_pc' = "list") =>
             \A f \in Eligible(pass_start, today) \ compress_failed :
                /\ f \notin DOMAIN tree
                /\ GzPath(f) \in DOMAIN tree
                /\ tree[GzPath(f)].lines = pass_start[f].lines]_vars
    /\ (comp_pc = "work") ~> (comp_pc = "list")

\* C30 witness: every coroutine of a pass over two listed files has
\* returned; the compression of one file failed, the other file is
\* compressed and removed.
C30_Witness ==
    /\ comp_pc = "work" /\ comp_todo = {} /\ comp_rm = {}
    /\ Cardinality(Eligible(pass_start, today)) = 2
    /\ \E f, g \in Eligible(pass_start, today) :
          /\ f \in compress_failed
          /\ tree[GzPath(f)].lines # pass_start[f].lines
          /\ g \notin compress_failed
          /\ g \notin DOMAIN tree
          /\ tree[GzPath(g)].lines = pass_start[g].lines

\* ------------------------------------------------------- claims: start-up

\* Nothing of the ingestion exists: no queue, no process_queue task, no
\* connect_and_listen task, no connection, no Retention Enforcer.
NothingStarted ==
    /\ DOMAIN message_queues = {}
    /\ \A k \in AllKeys : pq_pc[k] = "none"
    /\ \A c \in Channels : sup_pc[c] = "idle" /\ cur[c] = 0 /\ hb[c] = {}
    /\ enf_pc = "idle"

\* The Connection Supervisors and both maintenance loops have been created.
AllStarted ==
    /\ main_pc = "running"
    /\ comp_pc \in {"list", "work"}
    /\ enf_pc # "idle"
    /\ \A c \in Channels : sup_pc[c] # "idle"

\* C31: until main opens its TaskGroup there is no queue, no Topic Buffer, no
\* Connection Supervisor and no connection; main opens it only when a
\* compaction pass has run to its end, with every file the pass listed
\* compressed and removed unless its compression or removal failed; and
\* main always gets there, whatever failed in the start-up pass.
C31_StartupPassFirst ==
    /\ [](main_pc # "running" => NothingStarted)
    /\ [][(main_pc # "running" /\ main_pc' = "running") =>
             /\ main_pc = "startup"
             /\ comp_todo = {} /\ comp_rm = {}
             /\ comp_pc = "list" => Eligible(tree, today) = {}
             /\ comp_pc = "work" =>
                   \A f \in Eligible(pass_start, today) \ compress_failed :
                      /\ f \notin DOMAIN tree
                      /\ GzPath(f) \in DOMAIN tree
                      /\ tree[GzPath(f)].lines = pass_start[f].lines
             /\ AllStarted']_vars
    /\ (main_pc = "init") ~> AllStarted
    /\ (main_pc = "startup" /\ compress_failed # {}) ~> AllStarted

\* C31 witness: the start-up pass listed two files; the compression of one
\* failed and the other is archived; after it the Connection Supervisor of
\* "linear" is streaming on its first connection and a Topic Buffer exists.
C31_Witness ==
    /\ AllStarted
    /\ sup_pc["linear"] = "streaming" /\ cur["linear"] = 1
    /\ \E k \in Keys : k \in DOMAIN message_queues /\ pq_pc[k] # "none"
    /\ Cardinality(Eligible(pass_start, today)) = 2
    /\ \E f, g \in Eligible(pass_start, today) :
          /\ f \notin DOMAIN tree
          /\ tree[GzPath(f)].lines = <<>>
          /\ pass_start[f].lines # <<>>
          /\ g \notin DOMAIN tree
          /\ tree[GzPath(g)].lines = pass_start[g].lines

\* ------------------------------------------- claims: durability, delivery

\* The serialized records of key k that a write has put in a file: the
\* arrived ones that are neither on the queue nor in the buffer.
FlushedLines(k) ==
    SubSeq(ArrivedLines(k), 1,
           Len(arrived[k]) - Len(QueueOf(k)) - Len(buffer[k]))

\* The lines the .csv and the .csv.gz files of key k hold.
RecoverableLines(k) ==
    UNION {Range(tree[f].lines) : f \in {g \in DOMAIN tree : g.key = k}}

\* C32: with successful writes and compressions and no deletion by the
\* Retention Enforcer, every record a flush has written stays in a .csv or a
\* .csv.gz of its key; the Compactor removes a .csv only when the archive
\* holds all of its lines, and a compression never replaces an archive by
\* one with fewer records.
C32_FlushedStaysRecoverable ==
    /\ [](\A k \in Keys : Range(FlushedLines(k)) \subseteq RecoverableLines(k))
    /\ [][/\ \A f \in (comp_rm \ comp_rm') \cap DOMAIN tree :
               /\ GzPath(f) \in DOMAIN tree
               /\ Range(tree[f].lines) \subseteq Range(tree[GzPath(f)].lines)
          /\ \A f \in (comp_todo \ comp_todo') \cap DOMAIN tree :
               GzPath(f) \in DOMAIN tree =>
                   Len(tree'[GzPath(f)].lines) >= Len(tree[GzPath(f)].lines)]_vars

\* C33: of the frames a connection has received since the subscribe request
\* was sent, every dict with a routable topic was handed to save_message
\* once: a key has as many records as there were frames with its topic.
C33_EveryDataFrameRouted ==
    \A c \in Channels :
        \A k \in AllKeys :
            k[1] = c =>
                Len(arrived[k])
                    = Len(SelectSeq(RoutedTopics(inbound[c]), LAMBDA t : t = k[2]))

\* The process_queue task of key k exists and has not ended.
TaskAlive(k) ==
    pq_pc[k] \in {"start", "wait", "write", "roll_write", "error_sleep"}

\* C34: every key of message_queues has a process_queue task that has not
\* ended, and with fair scheduling and no write failure every record put on
\* a queue is eventually in the key's files.
C34_QueueAlwaysConsumed ==
    /\ [](\A k \in DOMAIN message_queues : TaskAlive(k))
    /\ \A k \in Keys :
          \A n \in 1..MaxArrivals :
             (Len(arrived[k]) >= n) ~> (Len(FileConcat(k)) >= n)

\* ----------------------------------------- claims: the variant bybit-listener.py

\* The date on which the i-th record of the buffer of key k was dequeued.
BufferedDate(k, i) == recv_date[k][Len(recv_date[k]) - Len(buffer[k]) + i]

\* C35: in the variant, a write of process_queue puts every record in the
\* file named for the date on which the record was dequeued, so a record
\* dequeued after the date has advanced goes to the new date's file; and a
\* file the compression task has listed as old is not appended to.
C35_VariantFollowsDate ==
    [][/\ \A k \in Keys :
            (pq_pc[k] = "write" /\ pq_pc'[k] = "wait") =>
                \A i \in 1..Len(buffer[k]) :
                    /\ CsvFile(k, BufferedDate(k, i)) \in DOMAIN tree'
                    /\ buffer[k][i] \in
                          Range(tree'[CsvFile(k, BufferedDate(k, i))].lines)
       /\ \A f \in (comp_todo \cup comp_rm) \cap DOMAIN tree :
            f \in DOMAIN tree' => tree'[f].lines = tree[f].lines]_vars

====
